---- MODULE Spec2Model ----
(***************************************************************************)
(* A model of luigi's parameter resolution (luigi/parameter.py) and of the *)
(* subprocess pipe wrappers (luigi/format.py).                             *)
(*                                                                         *)
(* Python values are tagged records; text is a sequence of one-character   *)
(* strings, so that str(), int(), lower() and string concatenation are     *)
(* computed and not assumed.                                               *)
(***************************************************************************)
EXTENDS Integers, Sequences, FiniteSets, TLC

VARIABLES
    param,      \* the Parameter object declared on the task class
    cli,        \* CmdlineParser: [active, known_args]
    config,     \* configuration.get_config(): <<section, option>> -> raw text
    last,       \* the last call made on param and what it produced
    Parameter_counter,  \* the class attribute Parameter._counter
    pc,         \* per thread: where it is in Parameter.__init__
    building,   \* per thread: the object whose __init__ is running
    tmp,        \* per thread: the operand loaded for Parameter._counter += 1
    objs,       \* the parameters constructed so far, in order of completion
    overlapped, \* whether two constructions have ever been in progress at once
    call        \* a method applied to an argument, and its results

resVars == <<param, cli, config, last>>
declVars == <<pc, building, tmp, objs, overlapped>>
vars == <<param, cli, config, last, Parameter_counter, pc, building, tmp, objs,
          overlapped, call>>

----------------------------------------------------------------------------
(* Bounds of the model *)

\* threads that declare parameters
NThreads == 2
\* parameters declared in one run
MaxParams == 3
\* the largest interval= of a date or datetime parameter
MaxInterval == 3
\* the longest list of raw values passed to _parse_list
MaxLen == 3

Threads == 1..NThreads

----------------------------------------------------------------------------
(* Python values *)

NoValue == [t |-> "_no_value"]
None == [t |-> "None"]
StrV(s) == [t |-> "str", s |-> s]
IntV(i) == [t |-> "int", i |-> i]
BoolV(b) == [t |-> "bool", b |-> b]
\* a raised exception; args is the message: literal pieces and formatted values
Exc(kind, args) == [t |-> "raise", exc |-> kind, args |-> args]
Lit(text) == [lit |-> text]
Val(v) == [val |-> v]

IsExc(v) == v.t = "raise"
IsStr(v) == v.t = "str"

\* Python truthiness, as tested by "if not x"
Truthy(v) ==
    CASE v.t = "None" -> FALSE
      [] v.t = "str" -> v.s # <<>>
      [] v.t = "int" -> v.i # 0
      [] v.t = "bool" -> v.b
      [] OTHER -> TRUE

----------------------------------------------------------------------------
(* Text *)

Digits == <<"0", "1", "2", "3", "4", "5", "6", "7", "8", "9">>

IsDigit(c) == \E d \in 1..10 : Digits[d] = c
DigitVal(c) == (CHOOSE d \in 1..10 : Digits[d] = c) - 1

Upper == <<"A", "E", "F", "L", "R", "S", "T", "U">>
Lower == <<"a", "e", "f", "l", "r", "s", "t", "u">>

\* str.lower() on one character
LowerChar(c) ==
    IF \E k \in 1..Len(Upper) : Upper[k] = c
    THEN Lower[CHOOSE k \in 1..Len(Upper) : Upper[k] = c]
    ELSE c

\* str.lower()
StrLower(s) == [k \in 1..Len(s) |-> LowerChar(s[k])]

RECURSIVE NatToText(_)
NatToText(n) ==
    IF n < 10 THEN <<Digits[n + 1]>>
    ELSE NatToText(n \div 10) \o <<Digits[(n % 10) + 1]>>

\* str(int)
IntToText(i) == IF i < 0 THEN <<"-">> \o NatToText(-i) ELSE NatToText(i)

RECURSIVE DigitsToNat(_)
DigitsToNat(s) ==
    IF s = <<>> THEN 0
    ELSE 10 * DigitsToNat(SubSeq(s, 1, Len(s) - 1)) + DigitVal(s[Len(s)])

AllDigits(s) == s # <<>> /\ \A k \in 1..Len(s) : IsDigit(s[k])

\* str(x)
PyStr(v) ==
    CASE v.t = "str" -> v.s
      [] v.t = "int" -> IntToText(v.i)
      [] v.t = "bool" -> IF v.b THEN <<"T", "r", "u", "e">>
                         ELSE <<"F", "a", "l", "s", "e">>
      [] v.t = "None" -> <<"N", "o", "n", "e">>
      [] v.t = "Path" -> v.s
      [] OTHER -> <<"?">>

\* int(x)
PyInt(v) ==
    CASE v.t = "int" -> v
      [] v.t = "bool" -> IntV(IF v.b THEN 1 ELSE 0)
      [] v.t = "str" ->
            IF AllDigits(v.s) THEN IntV(DigitsToNat(v.s))
            ELSE IF Len(v.s) > 1 /\ v.s[1] \in {"-", "+"} /\ AllDigits(Tail(v.s))
            THEN IntV(IF v.s[1] = "-" THEN 0 - DigitsToNat(Tail(v.s))
                     ELSE DigitsToNat(Tail(v.s)))
            ELSE Exc("ValueError", <<Lit("invalid literal for int()"), Val(v)>>)
      [] OTHER -> Exc("TypeError", <<Lit("int() argument must be a string or a number"), Val(v)>>)

----------------------------------------------------------------------------
(* datetime.date, datetime.datetime and datetime.timedelta                 *)

DateV(y, m, d) == [t |-> "date", year |-> y, month |-> m, day |-> d]

\* a datetime is held as whole seconds since 1970-01-01T00:00:00 and the
\* microsecond field; a timedelta as days, seconds and microseconds, as
\* datetime.timedelta normalises them
DatetimeV(sec, us) == [t |-> "datetime", sec |-> sec, us |-> us]
TimedeltaV(days, seconds, us) ==
    [t |-> "timedelta", days |-> days, seconds |-> seconds, us |-> us]

MicrosPerSecond == 1000000
SecondsPerDay == 86400

DaysInMonthTable == <<31, 28, 31, 30, 31, 30, 31, 31, 30, 31, 30, 31>>

IsLeap(y) == y % 4 = 0 /\ (y % 100 # 0 \/ y % 400 = 0)

DaysInMonth(y, m) == IF m = 2 /\ IsLeap(y) THEN 29 ELSE DaysInMonthTable[m]

DaysBeforeYear(year) ==
    LET y == year - 1 IN y * 365 + (y \div 4) - (y \div 100) + (y \div 400)

RECURSIVE DaysBeforeMonth(_, _)
DaysBeforeMonth(y, m) ==
    IF m = 1 THEN 0 ELSE DaysBeforeMonth(y, m - 1) + DaysInMonth(y, m - 1)

\* date.toordinal()
Ymd2Ord(d) == DaysBeforeYear(d.year) + DaysBeforeMonth(d.year, d.month) + d.day

\* the year holding ordinal n
RECURSIVE YearOfOrd(_, _)
YearOfOrd(n, y) ==
    IF n <= DaysBeforeYear(y) THEN YearOfOrd(n, y - 1)
    ELSE IF n > DaysBeforeYear(y + 1) THEN YearOfOrd(n, y + 1)
    ELSE y

RECURSIVE MonthOfDay(_, _, _)
MonthOfDay(y, m, n) ==
    IF n > DaysBeforeMonth(y, m) + DaysInMonth(y, m) THEN MonthOfDay(y, m + 1, n)
    ELSE m

\* date.fromordinal(n)
Ord2Ymd(n) ==
    LET y == YearOfOrd(n, (n \div 365) + 1)
        r == n - DaysBeforeYear(y)
        m == MonthOfDay(y, 1, r)
    IN  DateV(y, m, r - DaysBeforeMonth(y, m))

EpochOrdinal == Ymd2Ord(DateV(1970, 1, 1))

\* datetime.date()
DateOf(dt) == Ord2Ymd(EpochOrdinal + (dt.sec \div SecondsPerDay))

\* datetime.datetime.combine(d, datetime.time.min)
DatetimeOfDate(d) == DatetimeV((Ymd2Ord(d) - EpochOrdinal) * SecondsPerDay, 0)

\* date + timedelta(days=n)
DateAddDays(d, n) == Ord2Ymd(Ymd2Ord(d) + n)

\* (a - b).days for two dates
DateDiffDays(a, b) == Ymd2Ord(a) - Ymd2Ord(b)

\* a - b for two datetimes: a timedelta
DatetimeDiff(a, b) ==
    LET borrow == IF a.us < b.us THEN 1 ELSE 0
        secs == a.sec - b.sec - borrow
    IN  TimedeltaV(secs \div SecondsPerDay, secs % SecondsPerDay,
                   a.us - b.us + borrow * MicrosPerSecond)

\* dt - td for a datetime and a timedelta
DatetimeSub(dt, td) ==
    LET borrow == IF dt.us < td.us THEN 1 ELSE 0
    IN  DatetimeV(dt.sec - (td.days * SecondsPerDay + td.seconds) - borrow,
                  dt.us - td.us + borrow * MicrosPerSecond)

\* dt + td for a datetime and a timedelta
DatetimeAdd(dt, td) ==
    LET carry == IF dt.us + td.us >= MicrosPerSecond THEN 1 ELSE 0
    IN  DatetimeV(dt.sec + td.days * SecondsPerDay + td.seconds + carry,
                  dt.us + td.us - carry * MicrosPerSecond)

\* timedelta(seconds=td.total_seconds() % whole), whole a number of seconds
TimedeltaModSeconds(td, whole) ==
    LET r == (td.days * SecondsPerDay + td.seconds) % whole
    IN  TimedeltaV(r \div SecondsPerDay, r % SecondsPerDay, td.us)

----------------------------------------------------------------------------
(* strftime and strptime over the directives the date formats use          *)

\* the year, month, day, hour, minute and second of a date or a datetime
FieldsOf(v) ==
    IF v.t = "date"
    THEN [Y |-> v.year, m |-> v.month, d |-> v.day, H |-> 0, M |-> 0, S |-> 0]
    ELSE LET date == DateOf(v)
             tod == v.sec % SecondsPerDay
         IN  [Y |-> date.year, m |-> date.month, d |-> date.day,
              H |-> tod \div 3600, M |-> (tod % 3600) \div 60, S |-> tod % 60]

\* dt.strftime(fmt), fmt a sequence of directives and literal characters
RECURSIVE Strftime(_, _)
Strftime(fmt, f) ==
    LET ZeroPad(n, width) ==
            LET txt == NatToText(n)
            IN  [i \in 1..(IF Len(txt) < width THEN width - Len(txt) ELSE 0) |-> "0"] \o txt
        item == Head(fmt)
        piece == CASE item = "%Y" -> ZeroPad(f.Y, 4)
                   [] item = "%m" -> ZeroPad(f.m, 2)
                   [] item = "%d" -> ZeroPad(f.d, 2)
                   [] item = "%H" -> ZeroPad(f.H, 2)
                   [] item = "%M" -> ZeroPad(f.M, 2)
                   [] item = "%S" -> ZeroPad(f.S, 2)
                   [] OTHER -> <<item>>
    IN  IF fmt = <<>> THEN <<>> ELSE piece \o Strftime(Tail(fmt), f)

\* The match of fmt from its k-th item against txt from position pos, with
\* the backtracking of the regular expression _strptime builds: a directive
\* tries its w-th alternative (two digits before one digit, four for the
\* year), a literal matches without regard to case, and the text must end
\* with the format.  The fields, or None where nothing matches.
RECURSIVE StrptimeMatch(_, _, _, _, _, _)
StrptimeMatch(txt, pos, fmt, k, f, w) ==
    LET Accepts(item, n, two) ==
            CASE item = "%Y" -> TRUE
              [] item = "%m" -> IF two THEN n \in 1..12 ELSE n \in 1..9
              [] item = "%d" -> IF two THEN n \in 1..31 ELSE n \in 1..9
              [] item = "%H" -> IF two THEN n \in 0..23 ELSE TRUE
              [] item = "%M" -> IF two THEN n \in 0..59 ELSE TRUE
              [] item = "%S" -> IF two THEN n \in 0..61 ELSE TRUE
        Set(item, n) ==
            CASE item = "%Y" -> [f EXCEPT !.Y = n]
              [] item = "%m" -> [f EXCEPT !.m = n]
              [] item = "%d" -> [f EXCEPT !.d = n]
              [] item = "%H" -> [f EXCEPT !.H = n]
              [] item = "%M" -> [f EXCEPT !.M = n]
              [] item = "%S" -> [f EXCEPT !.S = n]
        \* the rest of the match, or the next alternative of the directive
        Either(rest) ==
            IF rest # None THEN rest ELSE StrptimeMatch(txt, pos, fmt, k, f, w + 1)
        Number(item, width, n) ==
            Either(IF Accepts(item, n, width = 2)
                   THEN StrptimeMatch(txt, pos + width, fmt, k + 1, Set(item, n), 1)
                   ELSE None)
        Piece(item, width, piece) ==
            IF Len(piece) = width /\ AllDigits(piece)
            THEN Number(item, width, DigitsToNat(piece))
            ELSE Either(None)
        Directive(item, widths) ==
            IF w > Len(widths) THEN None
            ELSE Piece(item, widths[w],
                       SubSeq(txt, pos, IF pos + widths[w] - 1 <= Len(txt)
                                        THEN pos + widths[w] - 1 ELSE Len(txt)))
    IN  IF k > Len(fmt) THEN (IF pos > Len(txt) THEN f ELSE None)
        ELSE IF fmt[k] \notin {"%Y", "%m", "%d", "%H", "%M", "%S"}
        THEN IF pos <= Len(txt) /\ LowerChar(txt[pos]) = LowerChar(fmt[k])
             THEN StrptimeMatch(txt, pos + 1, fmt, k + 1, f, 1)
             ELSE None
        ELSE Directive(fmt[k], IF fmt[k] = "%Y" THEN <<4>> ELSE <<2, 1>>)

\* datetime.datetime.strptime(s, fmt): the datetime, or ValueError
Strptime(s, fmt) ==
    IF s.t # "str"
    THEN Exc("TypeError", <<Lit("strptime() argument 1 must be str"), Val(s)>>)
    ELSE LET Found(f) ==
                 IF f = None \/ f.Y < 1
                 THEN Exc("ValueError", <<Lit("time data does not match format"), Val(s)>>)
                 ELSE IF f.d > DaysInMonth(f.Y, f.m) \/ f.S > 59
                 THEN Exc("ValueError", <<Lit("out of range"), Val(s)>>)
                 ELSE DatetimeV((Ymd2Ord(DateV(f.Y, f.m, f.d)) - EpochOrdinal) * SecondsPerDay
                                    + f.H * 3600 + f.M * 60 + f.S, 0)
         IN  Found(StrptimeMatch(s.s, 1, fmt, 1,
                       [Y |-> 1900, m |-> 1, d |-> 1, H |-> 0, M |-> 0, S |-> 0], 1))

----------------------------------------------------------------------------
(* TimeDeltaParameter: the text forms of a duration                        *)

\* datetime.timedelta(weeks=, days=, hours=, minutes=, seconds=), normalised
Timedelta(kw) ==
    LET total == kw.weeks * 7 * SecondsPerDay + kw.days * SecondsPerDay
                     + kw.hours * 3600 + kw.minutes * 60 + kw.seconds
    IN  TimedeltaV(total \div SecondsPerDay, total % SecondsPerDay, 0)

\* datetime.timedelta(seconds=float(input)): a number is an optional sign,
\* digits and at most one point, between optional blanks; anything else is
\* a ValueError.  Fractions keep their first six digits.
TimedeltaOfFloat(input) ==
    LET Seconds(secs, us, negative) ==
            IF ~negative THEN TimedeltaV(secs \div SecondsPerDay, secs % SecondsPerDay, us)
            ELSE IF us = 0
            THEN TimedeltaV((-secs) \div SecondsPerDay, (-secs) % SecondsPerDay, 0)
            ELSE TimedeltaV((-secs - 1) \div SecondsPerDay, (-secs - 1) % SecondsPerDay,
                            MicrosPerSecond - us)
        \* the digits before and after the point
        Digits2(whole, frac, negative) ==
            IF Len(whole) + Len(frac) = 0
                  \/ (\E i \in 1..Len(whole) : ~IsDigit(whole[i]))
                  \/ (\E j \in 1..Len(frac) : ~IsDigit(frac[j]))
            THEN Exc("ValueError", <<Lit("could not convert string to float: "), Val(input)>>)
            ELSE Seconds(IF whole = <<>> THEN 0 ELSE DigitsToNat(whole),
                         DigitsToNat(SubSeq(frac \o <<"0", "0", "0", "0", "0", "0">>, 1, 6)),
                         negative)
        \* the number without its sign, split at its first point
        Unsigned(body, point, negative) ==
            Digits2(SubSeq(body, 1, point - 1), SubSeq(body, point + 1, Len(body)), negative)
        Body(body, negative) ==
            Unsigned(body,
                     CHOOSE q \in 1..(Len(body) + 1) :
                         /\ q <= Len(body) => body[q] = "."
                         /\ \A i \in 1..(q - 1) : body[i] # ".",
                     negative)
        \* the text without the blanks around it
        Stripped(txt) ==
            IF txt # <<>> /\ Head(txt) \in {"-", "+"}
            THEN Body(Tail(txt), Head(txt) = "-")
            ELSE Body(txt, FALSE)
        Strip(txt, inked) ==
            IF inked = {} THEN Stripped(<<>>)
            ELSE Stripped(SubSeq(txt, CHOOSE i \in inked : \A j \in inked : i <= j,
                                      CHOOSE i \in inked : \A j \in inked : i >= j))
    IN  IF input.t = "int"
        THEN TimedeltaV(input.i \div SecondsPerDay, input.i % SecondsPerDay, 0)
        ELSE IF input.t # "str"
        THEN Exc("TypeError", <<Lit("float() argument must be a string or a number"),
                                Val(input)>>)
        ELSE Strip(input.s, {i \in 1..Len(input.s) : input.s[i] # " "})

\* the letter, the rest of the word and the final letter of each key
TimeDeltaKeys ==
    [weeks   |-> [first |-> "w", mid |-> <<"e", "e", "k">>, last |-> "s", upper |-> "W"],
     days    |-> [first |-> "d", mid |-> <<"a", "y">>, last |-> "s", upper |-> "D"],
     hours   |-> [first |-> "h", mid |-> <<"o", "u", "r">>, last |-> "s", upper |-> "H"],
     minutes |-> [first |-> "m", mid |-> <<"i", "n", "u", "t", "e">>, last |-> "s", upper |-> "M"],
     seconds |-> [first |-> "s", mid |-> <<"e", "c", "o", "n", "d">>, last |-> "s", upper |-> "S"]]

NoGroups == [weeks |-> 0, days |-> 0, hours |-> 0, minutes |-> 0, seconds |-> 0]

\* A run of optional groups matched greedily from position pos, as re.match
\* does: with iso, each is (\d+)K for the capital K of its key; without, each
\* is ((\d+) ?k(rest)?(s)? ?).  The groupdict with "0" for a group that did
\* not take part, whether any group took part, and the position reached.
RECURSIVE OptionalFields(_, _, _, _, _)
OptionalFields(txt, pos, keys, iso, m) ==
    IF keys = <<>> THEN [groupdict |-> m.groupdict, any |-> m.any, pos |-> pos]
    ELSE LET key == Head(keys)
             k == TimeDeltaKeys[key]
             \* c? and word? from position p: the position after it
             Skip(p, c) == IF p <= Len(txt) /\ txt[p] = c THEN p + 1 ELSE p
             SkipWord(p, w) ==
                 IF p + Len(w) - 1 <= Len(txt) /\ SubSeq(txt, p, p + Len(w) - 1) = w
                 THEN p + Len(w) ELSE p
             \* \d+ from pos: the position after the digits
             AfterDigits ==
                 CHOOSE q \in pos..(Len(txt) + 1) :
                     /\ \A i \in pos..(q - 1) : IsDigit(txt[i])
                     /\ ~(q <= Len(txt) /\ IsDigit(txt[q]))
             \* the group with its digits ending before q: the position after
             \* the group, or 0 where the letter of the key does not follow
             Group(q) ==
                 IF iso THEN (IF Skip(q, k.upper) = q THEN 0 ELSE q + 1)
                 ELSE IF Skip(Skip(q, " "), k.first) = Skip(q, " ") THEN 0
                 ELSE Skip(Skip(SkipWord(Skip(q, " ") + 1, k.mid), k.last), " ")
             Taken(q, end) ==
                 IF q > pos /\ end > 0
                 THEN OptionalFields(txt, end, Tail(keys), iso,
                          [groupdict |-> [m.groupdict EXCEPT
                                             ![key] = DigitsToNat(SubSeq(txt, pos, q - 1))],
                           any |-> TRUE])
                 ELSE OptionalFields(txt, pos, Tail(keys), iso, m)
             Matched(q) == Taken(q, Group(q))
         IN  Matched(AfterDigits)

\* TimeDeltaParameter._apply_regex, given the match (None where the regular
\* expression does not match at the start of the input)
apply_regex(re_match) ==
    IF re_match # None /\ re_match.any THEN Timedelta(re_match.groupdict) ELSE None

\* TimeDeltaParameter._parseIso8601: P(<weeks>W|(<days>D)?(T(<hours>H)?(<minutes>M)?(<seconds>S)?)?)
parseIso8601(input) ==
    LET txt == input.s
        none == [groupdict |-> NoGroups, any |-> FALSE]
        \* (<days>D)?(T(<hours>H)?(<minutes>M)?(<seconds>S)?)?
        Days(days) ==
            IF days.pos <= Len(txt) /\ txt[days.pos] = "T"
            THEN OptionalFields(txt, days.pos + 1, <<"hours", "minutes", "seconds">>, TRUE,
                                [groupdict |-> days.groupdict, any |-> TRUE])
            ELSE days
        \* <weeks>W, or the other alternative
        Weeks(weeks) ==
            IF weeks.any THEN weeks
            ELSE Days(OptionalFields(txt, 2, <<"days">>, TRUE, none))
    IN  apply_regex(IF ~(Len(txt) >= 1 /\ txt[1] = "P") THEN None
                    ELSE Weeks(OptionalFields(txt, 2, <<"weeks">>, TRUE, none)))

\* TimeDeltaParameter._parseSimple
parseSimple(input) ==
    apply_regex(OptionalFields(input.s, 1, <<"weeks", "days", "hours", "minutes", "seconds">>,
                               FALSE, [groupdict |-> NoGroups, any |-> FALSE]))

\* TimeDeltaParameter.parse
TimeDeltaParameter_parse(input) ==
    LET Result(result) ==
            IF result # None THEN result
            ELSE Exc("ParameterException",
                     <<Lit("Invalid time delta - could not parse "), Val(input)>>)
        \* if not result: None and the zero duration are both false
        Iso(result) ==
            Result(IF result = None \/ result = TimedeltaV(0, 0, 0)
                   THEN parseSimple(input) ELSE result)
        Float(number) ==
            IF ~(IsExc(number) /\ number.exc = "ValueError") THEN number
            ELSE Iso(parseIso8601(input))
    IN  Float(TimedeltaOfFloat(input))

\* TimeDeltaParameter.serialize
TimeDeltaParameter_serialize(x) ==
    LET weeks == x.days \div 7
        days == x.days % 7
        hours == x.seconds \div 3600
        minutes == (x.seconds % 3600) \div 60
        seconds == (x.seconds % 3600) % 60
    IN  IntToText(weeks) \o <<" ", "w", " ">> \o IntToText(days) \o <<" ", "d", " ">>
            \o IntToText(hours) \o <<" ", "h", " ">> \o IntToText(minutes)
            \o <<" ", "m", " ">> \o IntToText(seconds) \o <<" ", "s">>

----------------------------------------------------------------------------
(* Names of the task family and the parameter, and the places a raw value  *)
(* can come from.                                                          *)

TaskName == <<"T">>
ParamName == <<"p">>
LegacySection == <<"o">>
LegacyName == <<"q">>

\* Parameter._parser_global_dest
parser_global_dest(param_name, task_name) == task_name \o <<"_">> \o param_name

\* raw text a config file or a command line can hold
RawTexts ==
    { <<>>, <<"1">>, <<"-", "2">>, <<"x">>,
      <<"T", "r", "u", "e">>, <<"f", "a", "l", "s", "e">> }

\* what argparse leaves in known_args: None (option not given), the text
\* given, or the constant of a store_true / nargs="?" option
CliRaw == {None, BoolV(TRUE), BoolV(FALSE)} \cup {StrV(s) : s \in RawTexts}

ConfigKeys == { <<TaskName, ParamName>>, <<LegacySection, LegacyName>> }

\* NoSectionError / NoOptionError
Missing == [t |-> "missing"]
ConfigRaw == {Missing} \cup {StrV(s) : s \in RawTexts}

----------------------------------------------------------------------------
(* The parameter classes: construction, parse, normalize                   *)

\* the classes that mix OptionalParameterMixin in
OptionalClasses ==
    {"OptionalParameter", "OptionalIntParameter", "OptionalBoolParameter",
     "OptionalChoiceParameter", "OptionalPathParameter", "OptionalDictParameter",
     "OptionalListParameter"}

\* the class after OptionalParameterMixin in the method resolution order
Super(cls) ==
    CASE cls = "OptionalParameter" -> "Parameter"
      [] cls = "OptionalIntParameter" -> "IntParameter"
      [] cls = "OptionalBoolParameter" -> "BoolParameter"
      [] cls = "OptionalChoiceParameter" -> "ChoiceParameter"
      [] cls = "OptionalPathParameter" -> "PathParameter"
      [] cls = "OptionalDictParameter" -> "DictParameter"
      [] cls = "OptionalListParameter" -> "ListParameter"
      [] OTHER -> cls

DateClasses == {"DateParameter", "MonthParameter", "YearParameter"}
DatetimeClasses == {"DateHourParameter", "DateMinuteParameter", "DateSecondParameter"}

\* a keyword argument, or its default
Arg(kwargs, key, dflt) == IF key \in DOMAIN kwargs THEN kwargs[key] ELSE dflt

\* a constructor that stores config_path without looking at it
Parameter_init_unchecked(cls, kwargs, counter) ==
    [t |-> "Parameter", cls |-> cls,
     default |-> Arg(kwargs, "default", NoValue),
     batch_method |-> Arg(kwargs, "batch_method", None),
     config_path |-> Arg(kwargs, "config_path", None),
     counter |-> counter]

\* Parameter.__init__ up to the assignment of the ordinal: the object, or the
\* exception raised for a malformed config_path
Parameter_init(cls, kwargs, counter) ==
    LET config_path == Arg(kwargs, "config_path", None)
    IN  IF config_path # None
           /\ ("section" \notin DOMAIN config_path \/ "name" \notin DOMAIN config_path)
        THEN Exc("ParameterException",
                 <<Lit("config_path must be a hash containing entries for section and name")>>)
        ELSE [t |-> "Parameter", cls |-> cls,
              default |-> Arg(kwargs, "default", NoValue),
              batch_method |-> Arg(kwargs, "batch_method", None),
              config_path |-> config_path,
              counter |-> counter]

\* a boolean parameter that keeps the default it was given, none included
BoolParameter_init_no_default(cls, kwargs, counter) ==
    LET Built(self) ==
            IF IsExc(self) THEN self
            ELSE [parsing |-> Arg(kwargs, "parsing", "implicit")] @@ self
    IN  Built(Parameter_init(cls, kwargs, counter))

\* BoolParameter.parsing, the class attribute
BoolParameter_parsing == "implicit"

\* BoolParameter.__init__: a boolean parameter without a default gets False
BoolParameter_init(cls, kwargs, counter) ==
    LET Built(self) ==
            IF IsExc(self) THEN self
            ELSE [parsing |-> Arg(kwargs, "parsing", BoolParameter_parsing)]
                 @@ (IF self.default = NoValue THEN [self EXCEPT !.default = BoolV(FALSE)]
                     ELSE self)
    IN  Built(Parameter_init(cls, kwargs, counter))

\* _UNIX_EPOCH and _UNIX_EPOCH.date()
UnixEpoch == DatetimeV(0, 0)
UnixEpochDate == DateV(1970, 1, 1)

\* _DateParameterBase.__init__
DateParameterBase_init(cls, kwargs, counter) ==
    LET self == Parameter_init(cls, kwargs, counter)
    IN  IF IsExc(self) THEN self
        ELSE self @@ [interval |-> Arg(kwargs, "interval", 1),
                      start |-> IF Arg(kwargs, "start", None) # None
                                THEN kwargs.start ELSE UnixEpochDate]

\* _DatetimeParameterBase.__init__
DatetimeParameterBase_init(cls, kwargs, counter) ==
    LET self == Parameter_init(cls, kwargs, counter)
    IN  IF IsExc(self) THEN self
        ELSE self @@ [interval |-> Arg(kwargs, "interval", 1),
                      start |-> IF Arg(kwargs, "start", None) # None
                                THEN kwargs.start ELSE UnixEpoch]

\* type(x)
PyType(v) == v.t

\* ChoiceParameter.__init__
ChoiceParameter_init(cls, kwargs, counter) ==
    IF "choices" \notin DOMAIN kwargs
    THEN Exc("ParameterException", <<Lit("A choices iterable must be specified")>>)
    ELSE IF \E c \in kwargs.choices : PyType(c) # Arg(kwargs, "var_type", "str")
    THEN Exc("AssertionError", <<Lit("Invalid type in choices")>>)
    ELSE LET self == Parameter_init(cls, kwargs, counter)
         IN  IF IsExc(self) THEN self
             ELSE self @@ [choices |-> kwargs.choices,
                           var_type |-> Arg(kwargs, "var_type", "str")]

\* PathParameter.__init__
PathParameter_init(cls, kwargs, counter) ==
    LET self == Parameter_init(cls, kwargs, counter)
    IN  IF IsExc(self) THEN self
        ELSE self @@ [absolute |-> Arg(kwargs, "absolute", FALSE),
                      exists |-> Arg(kwargs, "exists", FALSE)]

\* NumericalParameter.__init__; left_op and right_op are "le" or "lt"
NumericalParameter_init(cls, kwargs, counter) ==
    LET left_op == Arg(kwargs, "left_op", "le")
        right_op == Arg(kwargs, "right_op", "lt")
        Built(self) ==
            IF IsExc(self) THEN self
            ELSE self @@ [var_type |-> kwargs.var_type,
                          min_value |-> kwargs.min_value,
                          max_value |-> kwargs.max_value,
                          left_op |-> left_op,
                          right_op |-> right_op,
                          permitted_range |->
                              StrV(<<"i", "n", "t", " ", "i", "n", " ">>
                                   \o (IF left_op = "le" THEN <<"[">> ELSE <<"(">>)
                                   \o PyStr(kwargs.min_value) \o <<",", " ">>
                                   \o PyStr(kwargs.max_value)
                                   \o (IF right_op = "lt" THEN <<")">> ELSE <<"]">>))]
    IN  IF "var_type" \notin DOMAIN kwargs
        THEN Exc("ParameterException", <<Lit("var_type must be specified")>>)
        ELSE IF "min_value" \notin DOMAIN kwargs
        THEN Exc("ParameterException", <<Lit("min_value must be specified")>>)
        ELSE IF "max_value" \notin DOMAIN kwargs
        THEN Exc("ParameterException", <<Lit("max_value must be specified")>>)
        ELSE Built(Parameter_init(cls, kwargs, counter))

\* EnumParameter.__init__
EnumParameter_init(cls, kwargs, counter) ==
    LET Built(self) == IF IsExc(self) THEN self ELSE self @@ [enum |-> kwargs.enum]
    IN  IF "enum" \notin DOMAIN kwargs
        THEN Exc("ParameterException", <<Lit("An enum class must be specified.")>>)
        ELSE Built(Parameter_init(cls, kwargs, counter))

\* the constructor the class statement runs
Construct(cls, kwargs, counter) ==
    CASE Super(cls) = "BoolParameter" -> BoolParameter_init(cls, kwargs, counter)
      [] Super(cls) \in DateClasses -> DateParameterBase_init(cls, kwargs, counter)
      [] Super(cls) \in DatetimeClasses -> DatetimeParameterBase_init(cls, kwargs, counter)
      [] Super(cls) = "ChoiceParameter" -> ChoiceParameter_init(cls, kwargs, counter)
      [] Super(cls) = "PathParameter" -> PathParameter_init(cls, kwargs, counter)
      [] Super(cls) = "NumericalParameter" -> NumericalParameter_init(cls, kwargs, counter)
      [] Super(cls) = "EnumParameter" -> EnumParameter_init(cls, kwargs, counter)
      [] OTHER -> Parameter_init(cls, kwargs, counter)

\* Parameter.parse
Parameter_parse(x) == x

\* IntParameter.parse
IntParameter_parse(s) == PyInt(s)

\* BoolParameter.parse
BoolParameter_parse(val) ==
    LET s == StrLower(PyStr(val))
    IN  IF s = <<"t", "r", "u", "e">> THEN BoolV(TRUE)
        ELSE IF s = <<"f", "a", "l", "s", "e">> THEN BoolV(FALSE)
        ELSE Exc("ValueError", <<Lit("cannot interpret as boolean"), Val(val)>>)


\* DateParameter.normalize with a remainder that takes the sign of the delta
DateParameter_normalize_truncating(self, value) ==
    IF value = None THEN None
    ELSE IF value.t \notin {"date", "datetime"}
    THEN Exc("TypeError", <<Lit("unsupported operand type(s) for -"), Val(value)>>)
    ELSE LET v == IF value.t = "datetime" THEN DateOf(value) ELSE value
             days == DateDiffDays(v, self.start)
             delta == IF days < 0 THEN 0 - ((0 - days) % self.interval)
                      ELSE days % self.interval
         IN  DateAddDays(v, 0 - delta)

\* DateParameter.normalize
DateParameter_normalize(self, value) ==
    IF value = None THEN None
    ELSE IF value.t \notin {"date", "datetime"}
    THEN Exc("TypeError", <<Lit("unsupported operand type(s) for -"), Val(value)>>)
    ELSE LET v == IF value.t = "datetime" THEN DateOf(value) ELSE value
             delta == DateDiffDays(v, self.start) % self.interval
         IN  DateAddDays(v, 0 - delta)

\* DateParameter.next_in_enumeration
DateParameter_next_in_enumeration(self, value) == DateAddDays(value, self.interval)

\* _add_months that adds to the month number and leaves the year alone
MonthParameter_add_months_same_year(date, months) ==
    DateV(date.year, date.month + months, 1)

\* MonthParameter._add_months
MonthParameter_add_months(date, months) ==
    LET year == date.year + ((date.month + months - 1) \div 12)
        month == ((date.month + months - 1) % 12) + 1
    IN  DateV(year, month, 1)

\* MonthParameter.normalize
MonthParameter_normalize(self, value) ==
    IF value = None THEN None
    ELSE IF value.t \notin {"date", "datetime"}
    THEN Exc("AttributeError", <<Lit("object has no attribute 'year'"), Val(value)>>)
    ELSE LET v == IF value.t = "datetime" THEN DateOf(value) ELSE value
             since == (v.year - self.start.year) * 12 + (v.month - self.start.month)
         IN  MonthParameter_add_months(self.start, since - (since % self.interval))

\* YearParameter.normalize
YearParameter_normalize(self, value) ==
    IF value = None THEN None
    ELSE IF value.t \notin {"date", "datetime"}
    THEN Exc("AttributeError", <<Lit("object has no attribute 'year'"), Val(value)>>)
    ELSE LET v == IF value.t = "datetime" THEN DateOf(value) ELSE value
             delta == (v.year - self.start.year) % self.interval
         IN  DateV(v.year - delta, 1, 1)

\* the class attribute _timedelta, in seconds
UnitSeconds(cls) ==
    CASE cls = "DateHourParameter" -> 3600
      [] cls = "DateMinuteParameter" -> 60
      [] cls = "DateSecondParameter" -> 1

\* _DatetimeParameterBase._convert_to_dt
convert_to_dt(dt) == IF dt.t # "datetime" THEN DatetimeOfDate(dt) ELSE dt

\* _DatetimeParameterBase.normalize
DatetimeParameterBase_normalize(self, cls, value) ==
    IF value = None THEN None
    ELSE IF value.t \notin {"date", "datetime"}
    THEN Exc("TypeError", <<Lit("combine() argument 1 must be datetime.date"), Val(value)>>)
    ELSE LET dt == [convert_to_dt(value) EXCEPT !.us = 0]
             delta == DatetimeDiff(dt, self.start)
             granularity == UnitSeconds(cls) * self.interval
         IN  DatetimeSub(dt, TimedeltaModSeconds(delta, granularity))

\* == between two values: numbers compare by value, whatever their type
PyEq(a, b) ==
    IF a.t \in {"int", "bool"} /\ b.t \in {"int", "bool"}
    THEN PyInt(a) = PyInt(b)
    ELSE a = b

\* ChoiceParameter.normalize
ChoiceParameter_normalize(self, var) ==
    IF \E c \in self.choices : PyEq(c, var) THEN var
    ELSE Exc("ValueError", <<Val(var), Lit(" is not a valid choice from the choices")>>)

\* the working directory and the paths that exist in the file system
Cwd == <<"/", "w">>
ExistingPaths == { <<"/", "w">>, <<"/", "w", "/", "a">> }

PathV(s) == [t |-> "Path", s |-> s]

\* pathlib.Path(x)
Path(x) ==
    CASE x.t = "Path" -> x
      [] x.t = "str" -> PathV(IF x.s = <<>> THEN <<".">> ELSE x.s)
      [] OTHER -> Exc("TypeError", <<Lit("expected str, bytes or os.PathLike object"), Val(x)>>)

\* Path.absolute()
PathAbsolute(path) ==
    IF path.s[1] = "/" THEN path
    ELSE IF path.s = <<".">> THEN PathV(Cwd)
    ELSE PathV(Cwd \o <<"/">> \o path.s)

\* Path.exists()
PathExists(path) == PathAbsolute(path).s \in ExistingPaths

\* PathParameter.normalize
PathParameter_normalize(self, x) ==
    LET p0 == Path(x)
        path == IF ~IsExc(p0) /\ self.absolute THEN PathAbsolute(p0) ELSE p0
    IN  IF IsExc(p0) THEN p0
        ELSE IF self.exists /\ ~PathExists(path)
        THEN Exc("ValueError", <<Lit("The path does not exist"), Val(path)>>)
        ELSE path

\* lists, tuples, dicts (as their items in insertion order) and the frozen dict
ListV(items) == [t |-> "list", items |-> items]
TupleV(items) == [t |-> "tuple", items |-> items]
DictV(items) == [t |-> "dict", items |-> items]
FrozenOrderedDictV(items) == [t |-> "FrozenOrderedDict", items |-> items]

\* freezing.recursively_freeze
RECURSIVE recursively_freeze(_)
recursively_freeze(value) ==
    CASE value.t \in {"dict", "FrozenOrderedDict"} ->
            FrozenOrderedDictV([k \in 1..Len(value.items) |->
                <<value.items[k][1], recursively_freeze(value.items[k][2])>>])
      [] value.t \in {"list", "tuple"} ->
            TupleV([k \in 1..Len(value.items) |-> recursively_freeze(value.items[k])])
      [] OTHER -> value

\* the position after the characters of txt from pos on that satisfy Ok
RunEnd(txt, pos, Ok(_)) ==
    CHOOSE p \in pos..(Len(txt) + 1) :
        /\ \A q \in pos..(p - 1) : Ok(txt[q])
        /\ p = Len(txt) + 1 \/ ~Ok(txt[p])

IsBlank(c) == c = " "
IsLetter(c) ==
    c \in {"a", "b", "c", "d", "e", "f", "l", "n", "o", "r", "s", "t", "u", "x", "y",
           "F", "N", "T"}

\* what a decoder returns: the value read and the position after it, or a
\* failure
Decoded(v, pos) == [ok |-> TRUE, v |-> v, pos |-> pos]
Failed == [ok |-> FALSE]

\* a name in a Python expression
NameV(s) == [t |-> "Name", s |-> s]

\* The decoder of json.loads (d = "json") and the parser of ast.literal_eval
\* (d = "literal"), on texts made of integers, strings without escapes, the
\* three constants, lists, tuples and mappings, with blanks between tokens.
\* Floats, escapes, set displays and operators other than the sign are not
\* read.
RECURSIVE DecodeValue(_, _, _)
RECURSIVE DecodeItems(_, _, _, _, _, _)

\* an integer: JSON takes a lone 0 before further digits as the whole
\* number, Python rejects a leading zero unless every digit is zero
DecodeInt(txt, pos, d) ==
    LET Number(negative, first) ==
            LET Run(e) ==
                    IF e = first THEN Failed
                    ELSE IF txt[first] = "0" /\ e > first + 1
                    THEN (IF d = "json" THEN Decoded(IntV(0), first + 1)
                          ELSE IF \A q \in first..(e - 1) : txt[q] = "0"
                          THEN Decoded(IntV(0), e)
                          ELSE Failed)
                    ELSE Decoded(IntV((IF negative THEN -1 ELSE 1)
                                        * DigitsToNat(SubSeq(txt, first, e - 1))), e)
            IN  Run(RunEnd(txt, first, IsDigit))
    IN  IF txt[pos] # "-" THEN Number(FALSE, pos)
        ELSE Number(TRUE, IF d = "literal" THEN RunEnd(txt, pos + 1, IsBlank) ELSE pos + 1)

\* a string up to the quote that opened it
DecodeString(txt, pos) ==
    LET Closed(e) ==
            IF e > Len(txt) THEN Failed
            ELSE Decoded(StrV(SubSeq(txt, pos + 1, e - 1)), e + 1)
    IN  Closed(RunEnd(txt, pos + 1, LAMBDA c : c # txt[pos]))

\* null, true, false in JSON; None, True, False or a name in Python
DecodeWord(txt, pos, d) ==
    LET Word(w, e) ==
            CASE w = (IF d = "json" THEN <<"n", "u", "l", "l">> ELSE <<"N", "o", "n", "e">>) ->
                    Decoded(None, e)
              [] w = (IF d = "json" THEN <<"t", "r", "u", "e">> ELSE <<"T", "r", "u", "e">>) ->
                    Decoded(BoolV(TRUE), e)
              [] w = (IF d = "json" THEN <<"f", "a", "l", "s", "e">>
                      ELSE <<"F", "a", "l", "s", "e">>) ->
                    Decoded(BoolV(FALSE), e)
              [] OTHER -> IF d = "json" THEN Failed ELSE Decoded(NameV(w), e)
        Run(e) == Word(SubSeq(txt, pos, e - 1), e)
    IN  Run(RunEnd(txt, pos, IsLetter))

\* the items up to the closing bracket, pairs inside braces; after tells
\* whether the bracket, an item or a comma was read last.  A comma before
\* the closing bracket is an error in JSON.
DecodeItems(txt, start, d, close, after, acc) ==
    LET Item(r) ==
            IF ~r.ok THEN Failed
            ELSE DecodeItems(txt, r.pos, d, close, "item", Append(acc, r.v))
        Pair(k) ==
            LET Valued(v) == IF ~v.ok THEN Failed ELSE Decoded(<<k.v, v.v>>, v.pos)
                Colon(p) ==
                    IF p > Len(txt) \/ txt[p] # ":" THEN Failed
                    ELSE Valued(DecodeValue(txt, p + 1, d))
            IN  IF ~k.ok \/ (d = "json" /\ k.v.t # "str") THEN Failed
                ELSE Colon(RunEnd(txt, k.pos, IsBlank))
        One(p) ==
            IF close = "}" THEN Pair(DecodeValue(txt, p, d)) ELSE DecodeValue(txt, p, d)
        At(p) ==
            IF p > Len(txt) THEN Failed
            ELSE IF txt[p] = close
            THEN (IF after = "comma" /\ d = "json" THEN Failed
                  ELSE [ok |-> TRUE, items |-> acc, pos |-> p + 1,
                        trailing |-> after = "comma"])
            ELSE IF after = "item"
            THEN (IF txt[p] = "," THEN DecodeItems(txt, p + 1, d, close, "comma", acc)
                  ELSE Failed)
            ELSE Item(One(p))
    IN  At(RunEnd(txt, start, IsBlank))

\* one value; a JSON object is built by object_pairs_hook=FrozenOrderedDict,
\* and a single parenthesised item without a comma is that item
DecodeValue(txt, start, d) ==
    LET Listed(r) == IF ~r.ok THEN Failed ELSE Decoded(ListV(r.items), r.pos)
        Tupled(r) ==
            IF ~r.ok THEN Failed
            ELSE IF Len(r.items) = 1 /\ ~r.trailing THEN Decoded(r.items[1], r.pos)
            ELSE Decoded(TupleV(r.items), r.pos)
        Mapped(r) ==
            IF ~r.ok THEN Failed
            ELSE Decoded(IF d = "json" THEN FrozenOrderedDictV(r.items) ELSE DictV(r.items),
                         r.pos)
        At(p) ==
            IF p > Len(txt) THEN Failed
            ELSE CASE txt[p] = "[" -> Listed(DecodeItems(txt, p + 1, d, "]", "open", <<>>))
                   [] txt[p] = "(" /\ d = "literal" ->
                         Tupled(DecodeItems(txt, p + 1, d, ")", "open", <<>>))
                   [] txt[p] = "{" -> Mapped(DecodeItems(txt, p + 1, d, "}", "open", <<>>))
                   [] txt[p] = "\"" \/ (txt[p] = "'" /\ d = "literal") -> DecodeString(txt, p)
                   [] IsDigit(txt[p]) \/ txt[p] = "-" -> DecodeInt(txt, p, d)
                   [] IsLetter(txt[p]) -> DecodeWord(txt, p, d)
                   [] OTHER -> Failed
    IN  At(RunEnd(txt, start, IsBlank))

\* json.loads(s, object_pairs_hook=FrozenOrderedDict); JSONDecodeError is a
\* ValueError
json_loads(s) ==
    LET Ended(r) ==
            IF r.ok /\ RunEnd(s.s, r.pos, IsBlank) = Len(s.s) + 1 THEN r.v
            ELSE Exc("ValueError", <<Lit("JSONDecodeError"), Val(s)>>)
    IN  IF ~IsStr(s)
        THEN Exc("TypeError",
                 <<Lit("the JSON object must be str, bytes or bytearray, not "), Val(s)>>)
        ELSE Ended(DecodeValue(s.s, 1, "json"))

\* whether a name occurs in the expression
RECURSIVE HasName(_)
HasName(v) ==
    CASE v.t = "Name" -> TRUE
      [] v.t \in {"list", "tuple"} -> \E k \in 1..Len(v.items) : HasName(v.items[k])
      [] v.t = "dict" ->
            \E k \in 1..Len(v.items) : HasName(v.items[k][1]) \/ HasName(v.items[k][2])
      [] OTHER -> FALSE

\* ast.literal_eval(x)
literal_eval(x) ==
    LET Ended(r) ==
            IF ~(r.ok /\ RunEnd(x.s, r.pos, IsBlank) = Len(x.s) + 1)
            THEN Exc("SyntaxError", <<Lit("invalid syntax"), Val(x)>>)
            ELSE IF HasName(r.v)
            THEN Exc("ValueError", <<Lit("malformed node or string"), Val(x)>>)
            ELSE r.v
    IN  IF ~IsStr(x) THEN Exc("ValueError", <<Lit("malformed node or string: "), Val(x)>>)
        ELSE Ended(DecodeValue(x.s, 1, "literal"))

\* iter(v), with the sequence of what it yields
PyIter(v) ==
    CASE v.t \in {"list", "tuple"} -> [t |-> "iterator", items |-> v.items]
      [] v.t \in {"dict", "FrozenOrderedDict"} ->
            [t |-> "iterator", items |-> [k \in 1..Len(v.items) |-> v.items[k][1]]]
      [] v.t = "str" ->
            [t |-> "iterator", items |-> [k \in 1..Len(v.s) |-> StrV(<<v.s[k]>>)]]
      [] OTHER -> Exc("TypeError", <<Val(v), Lit(" object is not iterable")>>)

\* list(v)
PyList(v) ==
    LET Iterated(it) == IF IsExc(it) THEN it ELSE ListV(it.items)
    IN  Iterated(PyIter(v))

\* tuple(v)
PyTuple(v) ==
    LET Iterated(it) == IF IsExc(it) THEN it ELSE TupleV(it.items)
    IN  Iterated(PyIter(v))

\* DictParameter.parse
DictParameter_parse(source) ==
    IF ~IsStr(source) THEN source ELSE json_loads(source)

\* ListParameter.parse
ListParameter_parse(x) ==
    LET Loaded(i) == IF IsExc(i) \/ i = None THEN i ELSE PyList(i)
    IN  Loaded(json_loads(x))

\* tuple(tuple(x) for x in i)
TupleOfTuples(i) ==
    LET Each(xs) ==
            IF \E k \in 1..Len(xs) : IsExc(PyTuple(xs[k]))
            THEN PyTuple(xs[CHOOSE k \in 1..Len(xs) :
                                /\ IsExc(PyTuple(xs[k]))
                                /\ \A j \in 1..(k - 1) : ~IsExc(PyTuple(xs[j]))])
            ELSE TupleV([k \in 1..Len(xs) |-> PyTuple(xs[k])])
        Inner(it) == IF IsExc(it) THEN it ELSE Each(it.items)
    IN  IF IsExc(i) THEN i ELSE Inner(PyIter(i))

\* TupleParameter.parse
TupleParameter_parse(x) ==
    LET Tried(r) ==
            IF IsExc(r) /\ r.exc \in {"ValueError", "TypeError"}
            THEN (LET Evaluated(v) == IF IsExc(v) THEN v ELSE PyTuple(v)
                  IN  Evaluated(literal_eval(x)))
            ELSE r
    IN  Tried(TupleOfTuples(json_loads(x)))

\* date_format of the date and datetime classes
date_format(cls) ==
    CASE cls = "DateParameter" -> <<"%Y", "-", "%m", "-", "%d">>
      [] cls = "MonthParameter" -> <<"%Y", "-", "%m">>
      [] cls = "YearParameter" -> <<"%Y">>
      [] cls = "DateHourParameter" -> <<"%Y", "-", "%m", "-", "%d", "T", "%H">>
      [] cls = "DateMinuteParameter" -> <<"%Y", "-", "%m", "-", "%d", "T", "%H", "%M">>
      [] cls = "DateSecondParameter" ->
            <<"%Y", "-", "%m", "-", "%d", "T", "%H", "%M", "%S">>

\* DateMinuteParameter.deprecated_date_format
deprecated_date_format == <<"%Y", "-", "%m", "-", "%d", "T", "%H", "H", "%M">>

\* _DateParameterBase.parse
DateParameterBase_parse(cls, s) ==
    LET Date(dt) == IF IsExc(dt) THEN dt ELSE DateOf(dt)
    IN  Date(Strptime(s, date_format(cls)))

\* _DatetimeParameterBase.parse
DatetimeParameterBase_parse(cls, s) == Strptime(s, date_format(cls))

\* DateMinuteParameter.parse
DateMinuteParameter_parse(cls, s) ==
    LET Try(value) ==
            IF IsExc(value) /\ value.exc = "ValueError"
            THEN DatetimeParameterBase_parse(cls, s)
            ELSE value
    IN  Try(Strptime(s, deprecated_date_format))

\* _DateParameterBase.serialize and _DatetimeParameterBase.serialize
DateParameterBase_serialize(cls, dt) ==
    IF dt = None THEN PyStr(dt) ELSE Strftime(date_format(cls), FieldsOf(dt))

\* ChoiceParameter.parse; self.normalize(var) is ChoiceParameter.normalize
\* also on an optional wrapper, var_type never returning None
ChoiceParameter_parse(self, x) ==
    LET Converted(var) == IF IsExc(var) THEN var ELSE ChoiceParameter_normalize(self, var)
    IN  Converted(CASE self.var_type = "int" -> PyInt(x)
                    [] self.var_type = "bool" -> BoolV(Truthy(x))
                    [] OTHER -> StrV(PyStr(x)))

\* both comparison operators taken as inclusive
operator_call_inclusive(op, a, b) == a.i <= b.i

\* operator.le(a, b) and operator.lt(a, b) on integers
operator_call(op, a, b) == IF op = "le" THEN a.i <= b.i ELSE a.i < b.i

\* NumericalParameter.parse, for var_type=int
NumericalParameter_parse(self, s) ==
    LET Converted(value) ==
            IF IsExc(value) THEN value
            ELSE IF operator_call(self.left_op, self.min_value, value)
                    /\ operator_call(self.right_op, value, self.max_value)
            THEN value
            ELSE Exc("ValueError", <<Val(s), Lit(" is not in the set of "),
                                     Val(self.permitted_range)>>)
    IN  Converted(PyInt(s))

\* parse of a class that is not an optional wrapper
Base_parse(self, cls, x) ==
    CASE cls = "IntParameter" -> IntParameter_parse(x)
      [] cls = "BoolParameter" -> BoolParameter_parse(x)
      [] cls \in DateClasses -> DateParameterBase_parse(cls, x)
      [] cls = "DateMinuteParameter" -> DateMinuteParameter_parse(cls, x)
      [] cls \in DatetimeClasses \ {"DateMinuteParameter"} -> DatetimeParameterBase_parse(cls, x)
      [] cls = "TimeDeltaParameter" -> TimeDeltaParameter_parse(x)
      [] cls = "ChoiceParameter" -> ChoiceParameter_parse(self, x)
      [] cls = "NumericalParameter" -> NumericalParameter_parse(self, x)
      [] cls = "DictParameter" -> DictParameter_parse(x)
      [] cls = "ListParameter" -> ListParameter_parse(x)
      [] cls = "TupleParameter" -> TupleParameter_parse(x)
      [] cls \in {"Parameter", "PathParameter"} -> Parameter_parse(x)

\* OptionalParameterMixin.parse
OptionalParameterMixin_parse(self, x) ==
    IF ~IsStr(x) THEN x
    ELSE IF Truthy(x) THEN Base_parse(self, Super(self.cls), x)
    ELSE None

\* self.parse(x)
parse(self, x) ==
    IF self.cls \in OptionalClasses THEN OptionalParameterMixin_parse(self, x)
    ELSE Base_parse(self, self.cls, x)

\* normalize that lets the failure of parse through
BoolParameter_normalize_raising(self, value) == parse(self, value)

\* BoolParameter.normalize; self.parse is the parse of the object's own class,
\* the optional wrapper's when the object is an OptionalBoolParameter
BoolParameter_normalize(self, value) ==
    LET Caught(r) == IF IsExc(r) /\ r.exc = "ValueError" THEN None ELSE r
    IN  Caught(parse(self, value))

\* normalize of a composite variant that returns the value as it came
Base_normalize_unfrozen(self, cls, x) ==
    CASE cls = "BoolParameter" -> BoolParameter_normalize(self, x)
      [] cls = "DateParameter" -> DateParameter_normalize(self, x)
      [] cls = "MonthParameter" -> MonthParameter_normalize(self, x)
      [] cls = "YearParameter" -> YearParameter_normalize(self, x)
      [] cls \in DatetimeClasses -> DatetimeParameterBase_normalize(self, cls, x)
      [] cls = "ChoiceParameter" -> ChoiceParameter_normalize(self, x)
      [] cls = "PathParameter" -> PathParameter_normalize(self, x)
      [] OTHER -> x

\* normalize of a class that is not an optional wrapper
Base_normalize(self, cls, x) ==
    CASE cls = "BoolParameter" -> BoolParameter_normalize(self, x)
      [] cls = "DateParameter" -> DateParameter_normalize(self, x)
      [] cls = "MonthParameter" -> MonthParameter_normalize(self, x)
      [] cls = "YearParameter" -> YearParameter_normalize(self, x)
      [] cls \in DatetimeClasses -> DatetimeParameterBase_normalize(self, cls, x)
      [] cls = "ChoiceParameter" -> ChoiceParameter_normalize(self, x)
      [] cls = "PathParameter" -> PathParameter_normalize(self, x)
      [] cls \in {"DictParameter", "ListParameter", "TupleParameter"} ->
            recursively_freeze(x)
      [] OTHER -> x

\* a wrapper whose normalize hands every value on, None included
OptionalParameterMixin_normalize_delegating(self, x) ==
    Base_normalize(self, Super(self.cls), x)

\* OptionalParameterMixin.normalize
OptionalParameterMixin_normalize(self, x) ==
    IF x = None THEN None ELSE Base_normalize(self, Super(self.cls), x)

\* self.normalize(x)
normalize(self, x) ==
    IF self.cls \in OptionalClasses THEN OptionalParameterMixin_normalize(self, x)
    ELSE Base_normalize(self, self.cls, x)

\* Parameter.serialize
Parameter_serialize(x) == PyStr(x)

\* serialize of a class that is not an optional wrapper
Base_serialize(self, cls, x) ==
    CASE cls \in DateClasses \cup DatetimeClasses -> DateParameterBase_serialize(cls, x)
      [] cls = "TimeDeltaParameter" -> TimeDeltaParameter_serialize(x)
      [] cls \in {"Parameter", "IntParameter", "BoolParameter", "ChoiceParameter",
                  "PathParameter"} -> Parameter_serialize(x)

\* OptionalParameterMixin.serialize
OptionalParameterMixin_serialize(self, x) ==
    IF x = None THEN <<>> ELSE Base_serialize(self, Super(self.cls), x)

\* self.serialize(x)
serialize(self, x) ==
    IF self.cls \in OptionalClasses THEN OptionalParameterMixin_serialize(self, x)
    ELSE Base_serialize(self, self.cls, x)

\* self.next_in_enumeration(value)
next_in_enumeration(self, value) ==
    CASE self.cls = "DateParameter" -> DateParameter_next_in_enumeration(self, value)
      [] self.cls = "MonthParameter" -> MonthParameter_add_months(value, self.interval)
      [] self.cls = "YearParameter" ->
            IF value.day > DaysInMonth(value.year + self.interval, value.month)
            THEN Exc("ValueError", <<Lit("day is out of range for month")>>)
            ELSE DateV(value.year + self.interval, value.month, value.day)
      [] self.cls \in DatetimeClasses ->
            DatetimeAdd(value, TimedeltaV(0, UnitSeconds(self.cls) * self.interval, 0))
      [] OTHER -> None

\* Parameter._is_batchable
is_batchable(self) == self.batch_method # None

\* a function given as batch_method=
Function(name) == [t |-> "function", name |-> name]

\* self._batch_method(items) for the functions tuple, ','.join and max, on
\* the items that map(self.parse, xs) produces when it is iterated: a parse
\* that raises ends the iteration with its exception
batch_method_call(f, items) ==
    LET failed == {k \in 1..Len(items) : IsExc(items[k])}
        join[k \in 0..Len(items)] ==
            IF k = 0 THEN <<>>
            ELSE IF k = 1 THEN items[1].s
            ELSE join[k - 1] \o <<",">> \o items[k].s
    IN  IF failed # {} THEN items[CHOOSE k \in failed : \A j \in failed : k <= j]
        ELSE CASE f.name = "tuple" -> TupleV(items)
               [] f.name = "join" ->
                     IF \E k \in 1..Len(items) : items[k].t # "str"
                     THEN Exc("TypeError", <<Lit("sequence item: expected str instance")>>)
                     ELSE StrV(join[Len(items)])
               [] f.name = "max" ->
                     IntV(CHOOSE m \in {items[k].i : k \in 1..Len(items)} :
                              \A k \in 1..Len(items) : items[k].i <= m)

\* parse_list mapping parse over xs from its last element to its first
parse_list_reversed(self, xs) ==
    IF ~is_batchable(self)
    THEN Exc("NotImplementedError", <<Lit("No batch method found")>>)
    ELSE IF xs = <<>>
    THEN Exc("ValueError", <<Lit("Empty parameter list passed to parse_list")>>)
    ELSE batch_method_call(self.batch_method,
                           [k \in 1..Len(xs) |-> parse(self, xs[Len(xs) + 1 - k])])

\* Parameter._parse_list
parse_list(self, xs) ==
    IF ~is_batchable(self)
    THEN Exc("NotImplementedError", <<Lit("No batch method found")>>)
    ELSE IF xs = <<>>
    THEN Exc("ValueError", <<Lit("Empty parameter list passed to parse_list")>>)
    ELSE batch_method_call(self.batch_method, [k \in 1..Len(xs) |-> parse(self, xs[k])])

----------------------------------------------------------------------------
(* Resolution: Parameter._get_value and the calls built on it              *)

\* what a call does besides returning: the reads of the sources and the
\* calls of parse, in the order they happen
GetattrEv(dest) == [ev |-> "getattr", dest |-> dest]
ConfGetEv(section, name) == [ev |-> "conf.get", section |-> section, name |-> name]
ParseEv(x) == [ev |-> "parse", x |-> x]

\* conf.get(section, name), Missing for NoSectionError, NoOptionError, KeyError
conf_get(section, name) ==
    IF <<section, name>> \in DOMAIN config THEN config[<<section, name>>] ELSE Missing

\* getattr(cp_parser.known_args, dest, None)
known_args_get(dest) ==
    IF dest \in DOMAIN cli.known_args THEN cli.known_args[dest] ELSE None

\* get_value_from_config with a parse that swallows its failure
get_value_from_config_lenient(self, section, name) ==
    LET Parsed(value, r) ==
            IF value = Missing \/ IsExc(r)
            THEN [ret |-> NoValue, log |-> <<ConfGetEv(section, name)>>]
            ELSE [ret |-> r, log |-> <<ConfGetEv(section, name), ParseEv(value)>>]
        Got(value) == Parsed(value, IF value = Missing THEN NoValue ELSE parse(self, value))
    IN  Got(conf_get(section, name))

\* get_value_from_config that passes over an empty entry, as the command
\* line does
get_value_from_config_skipping_empty(self, section, name) ==
    LET Got(value) ==
            IF value = Missing \/ value = StrV(<<>>)
            THEN [ret |-> NoValue, log |-> <<ConfGetEv(section, name)>>]
            ELSE [ret |-> parse(self, value),
                  log |-> <<ConfGetEv(section, name), ParseEv(value)>>]
    IN  Got(conf_get(section, name))

\* Parameter._get_value_from_config
get_value_from_config(self, section, name) ==
    LET value == conf_get(section, name)
    IN  IF value = Missing
        THEN [ret |-> NoValue, log |-> <<ConfGetEv(section, name)>>]
        ELSE [ret |-> parse(self, value),
              log |-> <<ConfGetEv(section, name), ParseEv(value)>>]

\* _parse_or_no_value that takes only None for an absent value
parse_or_no_value_unless_none(self, x) ==
    IF x = None THEN [ret |-> NoValue, log |-> <<>>]
    ELSE [ret |-> parse(self, x), log |-> <<ParseEv(x)>>]

\* Parameter._parse_or_no_value
parse_or_no_value(self, x) ==
    IF ~Truthy(x) THEN [ret |-> NoValue, log |-> <<>>]
    ELSE [ret |-> parse(self, x), log |-> <<ParseEv(x)>>]

\* Parameter._parser_kwargs, called with a task name
Parameter_parser_kwargs(param_name, task_name) ==
    [action |-> "store", dest |-> parser_global_dest(param_name, task_name)]

\* BoolParameter._parser_kwargs
BoolParameter_parser_kwargs(self, param_name, task_name) ==
    CASE self.parsing = "implicit" ->
            [Parameter_parser_kwargs(param_name, task_name) EXCEPT !.action = "store_true"]
      [] self.parsing = "explicit" ->
            Parameter_parser_kwargs(param_name, task_name)
                @@ [nargs |-> "?", const |-> BoolV(TRUE)]
      [] OTHER -> Exc("ValueError", <<Lit("unknown parsing value "), Val(StrV(<<>>))>>)

\* self._parser_kwargs(param_name, task_name)
parser_kwargs(self, param_name, task_name) ==
    IF Super(self.cls) = "BoolParameter"
    THEN BoolParameter_parser_kwargs(self, param_name, task_name)
    ELSE Parameter_parser_kwargs(param_name, task_name)

\* what the option leaves in known_args: given is absent, flag for the
\* option without a value, or the text that follows the option
add_argument_parsed(kwargs, given) ==
    CASE kwargs.action = "store_true" -> BoolV(given.t # "absent")
      [] given.t = "absent" -> None
      [] given.t = "flag" -> kwargs.const
      [] OTHER -> given

\* the deprecation message of the legacy config pointer
DeprecationMessage(section, name, task_name, param_name) ==
    [t |-> "format",
     pieces |-> << Lit("The use of the configuration ["), Val(StrV(section)),
                   Lit("] "), Val(StrV(name)),
                   Lit(" is deprecated. Please use ["), Val(StrV(task_name)),
                   Lit("] "), Val(StrV(param_name)) >>]

\* value_iterator with the config entry yielded before the CLI value
value_iterator_config_first(self, task_name, param_name) ==
    << [src |-> "config", section |-> task_name, name |-> param_name,
        warn |-> None] >>
    \o (IF cli.active
        THEN << [src |-> "cli", dest |-> parser_global_dest(param_name, task_name),
                 warn |-> None] >>
        ELSE << >>)
    \o (IF self.config_path # None
        THEN << [src |-> "config", section |-> self.config_path.section,
                 name |-> self.config_path.name,
                 warn |-> DeprecationMessage(self.config_path.section,
                                             self.config_path.name,
                                             task_name, param_name)] >>
        ELSE << >>)
    \o << [src |-> "default", warn |-> None] >>

\* Parameter._value_iterator: the generator, as the sequence of its yield
\* statements; nothing is read or parsed before the yield is reached
value_iterator(self, task_name, param_name) ==
    (IF cli.active
     THEN << [src |-> "cli", dest |-> parser_global_dest(param_name, task_name),
              warn |-> None] >>
     ELSE << >>)
    \o << [src |-> "config", section |-> task_name, name |-> param_name,
            warn |-> None] >>
    \o (IF self.config_path # None
        THEN << [src |-> "config", section |-> self.config_path.section,
                 name |-> self.config_path.name,
                 warn |-> DeprecationMessage(self.config_path.section,
                                             self.config_path.name,
                                             task_name, param_name)] >>
        ELSE << >>)
    \o << [src |-> "default", warn |-> None] >>

\* a generator that hands the default to parse like the other candidates
yield_default_parsed(self, y) ==
    CASE y.src = "cli" ->
            LET Found(r) == [ret |-> r.ret, log |-> <<GetattrEv(y.dest)>> \o r.log]
            IN  Found(parse_or_no_value(self, known_args_get(y.dest)))
      [] y.src = "config" -> get_value_from_config(self, y.section, y.name)
      [] y.src = "default" ->
            [ret |-> IF self.default = NoValue THEN NoValue
                     ELSE parse(self, self.default),
             log |-> <<>>]

\* running the generator up to one yield
yield(self, y) ==
    CASE y.src = "cli" ->
            LET Found(r) == [ret |-> r.ret, log |-> <<GetattrEv(y.dest)>> \o r.log]
            IN  Found(parse_or_no_value(self, known_args_get(y.dest)))
      [] y.src = "config" -> get_value_from_config(self, y.section, y.name)
      [] y.src = "default" -> [ret |-> self.default, log |-> <<>>]

\* the loop of get_value warning as soon as a candidate with a warning is
\* reached, whether or not it holds a value
RECURSIVE get_value_loop_warn_reached(_, _, _, _)
get_value_loop_warn_reached(self, it, k, log) ==
    IF k > Len(it) THEN [ret |-> NoValue, warnings |-> <<>>, log |-> log]
    ELSE LET w == IF it[k].warn # None
                  THEN <<[category |-> "DeprecationWarning", message |-> it[k].warn]>>
                  ELSE <<>>
             Warned(rest) == [rest EXCEPT !.warnings = w \o rest.warnings]
             Yielded(r) ==
                 IF IsExc(r.ret)
                 THEN [ret |-> r.ret, warnings |-> <<>>, log |-> log \o r.log]
                 ELSE IF r.ret # NoValue
                 THEN [ret |-> r.ret, warnings |-> w, log |-> log \o r.log]
                 ELSE Warned(get_value_loop_warn_reached(self, it, k + 1, log \o r.log))
         IN  Yielded(yield(self, it[k]))

\* the for loop of Parameter._get_value, from the k-th yield on
RECURSIVE get_value_loop(_, _, _, _)
get_value_loop(self, it, k, log) ==
    IF k > Len(it) THEN [ret |-> NoValue, warnings |-> <<>>, log |-> log]
    ELSE LET \* the body of the loop, given what the generator yielded
             Yielded(r) ==
                 IF IsExc(r.ret)
                 THEN [ret |-> r.ret, warnings |-> <<>>, log |-> log \o r.log]
                 ELSE IF r.ret # NoValue
                 THEN [ret |-> r.ret,
                       warnings |-> IF it[k].warn # None
                                    THEN <<[category |-> "DeprecationWarning",
                                            message |-> it[k].warn]>>
                                    ELSE <<>>,
                       log |-> log \o r.log]
                 ELSE get_value_loop(self, it, k + 1, log \o r.log)
         IN  Yielded(yield(self, it[k]))

\* get_value over a list built from the generator before the loop starts:
\* every candidate is read and parsed
RECURSIVE yield_all(_, _, _)
yield_all(self, it, k) ==
    IF k > Len(it) THEN [ret |-> NoValue, log |-> <<>>]
    ELSE LET Both(r, rest) ==
                 IF IsExc(r.ret) THEN r
                 ELSE [ret |-> rest.ret, log |-> r.log \o rest.log]
         IN  Both(yield(self, it[k]), yield_all(self, it, k + 1))

get_value_eager(self, task_name, param_name) ==
    LET Listed(all, r) ==
            IF IsExc(all.ret) THEN [ret |-> all.ret, warnings |-> <<>>, log |-> all.log]
            ELSE [r EXCEPT !.log = all.log]
        Iterate(it) == Listed(yield_all(self, it, 1), get_value_loop(self, it, 1, <<>>))
    IN  Iterate(value_iterator(self, task_name, param_name))

\* Parameter._get_value
get_value(self, task_name, param_name) ==
    get_value_loop(self, value_iterator(self, task_name, param_name), 1, <<>>)

\* Parameter.has_task_value
has_task_value(self, task_name, param_name) ==
    LET Got(r) == IF IsExc(r.ret) THEN r ELSE [r EXCEPT !.ret = BoolV(r.ret # NoValue)]
    IN  Got(get_value(self, task_name, param_name))

\* task_value returning the resolved value as it is
task_value_unnormalized(self, task_name, param_name) ==
    LET Got(r) ==
            IF IsExc(r.ret) THEN r
            ELSE IF r.ret = NoValue
            THEN [r EXCEPT !.ret = Exc("MissingParameterException",
                                       <<Lit("No default specified")>>)]
            ELSE r
    IN  Got(get_value(self, task_name, param_name))

\* Parameter.task_value
task_value(self, task_name, param_name) ==
    LET \* value = self._get_value(task_name, param_name), then the rest
        Got(r) ==
            IF IsExc(r.ret) THEN r
            ELSE IF r.ret = NoValue
            THEN [r EXCEPT !.ret = Exc("MissingParameterException",
                                       <<Lit("No default specified")>>)]
            ELSE [r EXCEPT !.ret = normalize(self, r.ret)]
    IN  Got(get_value(self, task_name, param_name))

----------------------------------------------------------------------------
(* The resolution state machine: one declared parameter, a command line    *)
(* and a config file that change, and the calls made on the parameter.     *)

Classes == {"Parameter", "IntParameter", "BoolParameter", "OptionalIntParameter"}

\* values given as default=
Defaults == {NoValue, None, StrV(<<"d">>), IntV(0), BoolV(TRUE)}

ValidConfigPaths == {None, [section |-> LegacySection, name |-> LegacyName]}

NoCall == [op |-> "none", ret |-> None, warnings |-> <<>>, log |-> <<>>]

Called(op, r) == [op |-> op, ret |-> r.ret, warnings |-> r.warnings, log |-> r.log]

NoCmdline == [active |-> FALSE,
              known_args |-> [d \in {parser_global_dest(ParamName, TaskName)} |-> None]]

\* no thread is declaring parameters
NoDeclaration ==
    /\ pc = [t \in Threads |-> "idle"]
    /\ building = [t \in Threads |-> None]
    /\ tmp = [t \in Threads |-> 0]
    /\ objs = <<>>
    /\ overlapped = FALSE

\* no method is being applied
NoApplication == call = [fn |-> "none"]

Init ==
    /\ param \in {Construct(cls, [default |-> d, config_path |-> cp], 0) :
                     cls \in Classes, d \in Defaults, cp \in ValidConfigPaths}
    /\ Parameter_counter = 1
    /\ cli = NoCmdline
    /\ config = [k \in ConfigKeys |-> Missing]
    /\ last = NoCall
    /\ NoDeclaration
    /\ NoApplication

\* a command line is parsed and its CmdlineParser instance becomes current
CmdlineParse ==
    /\ \E raw \in CliRaw :
          cli' = [active |-> TRUE,
                  known_args |-> [d \in {parser_global_dest(ParamName, TaskName)} |-> raw]]
    /\ last' = NoCall
    /\ UNCHANGED <<param, config, Parameter_counter, declVars, call>>

\* the CmdlineParser context is left
CmdlineExit ==
    /\ cli.active
    /\ cli' = NoCmdline
    /\ last' = NoCall
    /\ UNCHANGED <<param, config, Parameter_counter, declVars, call>>

\* the config file gets, changes or loses an entry
ConfigSet ==
    /\ \E k \in ConfigKeys, raw \in ConfigRaw :
          /\ config[k] # raw
          /\ config' = [config EXCEPT ![k] = raw]
    /\ last' = NoCall
    /\ UNCHANGED <<param, cli, Parameter_counter, declVars, call>>

CallGetValue ==
    /\ last' = Called("_get_value", get_value(param, TaskName, ParamName))
    /\ UNCHANGED <<param, cli, config, Parameter_counter, declVars, call>>

CallHasTaskValue ==
    /\ last' = Called("has_task_value", has_task_value(param, TaskName, ParamName))
    /\ UNCHANGED <<param, cli, config, Parameter_counter, declVars, call>>

CallTaskValue ==
    /\ last' = Called("task_value", task_value(param, TaskName, ParamName))
    /\ UNCHANGED <<param, cli, config, Parameter_counter, declVars, call>>

Next ==
    \/ CmdlineParse
    \/ CmdlineExit
    \/ ConfigSet
    \/ CallGetValue
    \/ CallHasTaskValue
    \/ CallTaskValue

Spec == Init /\ [][Next]_vars

----------------------------------------------------------------------------
(* The four candidates of the declared parameter, read off the state       *)

CliFound == cli.known_args[parser_global_dest(ParamName, TaskName)]
CurrentRaw == config[<<TaskName, ParamName>>]
LegacyRaw == config[<<LegacySection, LegacyName>>]

CliPresent == cli.active /\ Truthy(CliFound)
CurrentPresent == CurrentRaw # Missing
LegacyPresent == param.config_path # None /\ LegacyRaw # Missing
DefaultPresent == param.default # NoValue

AllAbsent == ~CliPresent /\ ~CurrentPresent /\ ~LegacyPresent /\ ~DefaultPresent

\* the raw value of the first present candidate among CLI, config, legacy
FirstRaw ==
    IF CliPresent THEN CliFound
    ELSE IF CurrentPresent THEN CurrentRaw
    ELSE IF LegacyPresent THEN LegacyRaw
    ELSE NoValue

\* the value of the first present candidate: the parse of its raw value, or
\* the default, or the sentinel when all four are absent
FirstValue == IF FirstRaw # NoValue THEN parse(param, FirstRaw) ELSE param.default

Resolved == last.op \in {"_get_value", "has_task_value", "task_value"}

\* C1: resolution returns the value of the first present candidate in the
\* order CLI, config at (family, name), config at the legacy pointer,
\* default; has_task_value reports whether there is one.
C1_FirstPresentWins ==
    (Resolved /\ ~IsExc(FirstValue)) =>
        /\ last.op = "_get_value" => last.ret = FirstValue
        /\ last.op = "has_task_value" => last.ret = BoolV(FirstValue # NoValue)
        /\ last.op = "task_value" =>
              (FirstValue # NoValue => last.ret = normalize(param, FirstValue))

\* all four candidates are present, hold different values, and the call
\* returned the CLI value
C1_Witness ==
    /\ last.op = "_get_value"
    /\ CliPresent /\ CurrentPresent /\ LegacyPresent /\ DefaultPresent
    /\ last.ret = parse(param, CliFound)
    /\ ~IsExc(last.ret)
    /\ parse(param, CurrentRaw) # last.ret
    /\ parse(param, LegacyRaw) # last.ret
    /\ param.default # last.ret

ParseEvents(log) == {k \in 1..Len(log) : log[k].ev = "parse"}
ConfGetEvents(log) == {k \in 1..Len(log) : log[k].ev = "conf.get"}

\* C2: resolution short-circuits: parse is called at most once, on the raw
\* value of the first present candidate; no config entry is read once the
\* CLI value is present and the legacy entry is not read once the current
\* entry is present; an unparseable lower-priority raw value causes neither
\* a failure nor a diagnostic.
C2_ShortCircuit ==
    Resolved =>
        /\ \A k \in ParseEvents(last.log) : last.log[k].x = FirstRaw
        /\ Cardinality(ParseEvents(last.log)) <= 1
        /\ CliPresent => ConfGetEvents(last.log) = {}
        /\ (CliPresent \/ CurrentPresent) =>
              \A k \in ConfGetEvents(last.log) :
                  last.log[k] # ConfGetEv(LegacySection, LegacyName)
        /\ ((CliPresent \/ CurrentPresent) /\ ~IsExc(FirstValue)) =>
              (~IsExc(last.ret) /\ last.warnings = <<>>)

\* the CLI value won while the current and the legacy config entries hold
\* text that parse rejects
C2_Witness ==
    /\ last.op = "task_value"
    /\ CliPresent /\ CurrentPresent /\ LegacyPresent
    /\ IsExc(parse(param, CurrentRaw))
    /\ IsExc(parse(param, LegacyRaw))
    /\ ~IsExc(last.ret)

IsMissingParameter(r) == IsExc(r) /\ r.exc = "MissingParameterException"

\* C3: task_value raises the missing-parameter failure exactly when all
\* four candidates are absent, and otherwise returns normalize of the first
\* present candidate's parsed value.
C3_RequireMissingIffAllAbsent ==
    last.op = "task_value" =>
        /\ IsMissingParameter(last.ret) <=> AllAbsent
        /\ (~AllAbsent /\ ~IsExc(FirstValue)) =>
              last.ret = normalize(param, FirstValue)

\* a parameter without default, CLI value or config entry was required
C3_Witness ==
    /\ last.op = "task_value"
    /\ AllAbsent
    /\ param.config_path # None
    /\ cli.active
    /\ IsMissingParameter(last.ret)

MessageValues(r) == {r.args[k].val : k \in {j \in 1..Len(r.args) : "val" \in DOMAIN r.args[j]}}

\* C4: the missing-parameter failure raised by task_value carries the name
\* of the parameter that could not be resolved.
C4_MissingCarriesName ==
    (last.op = "task_value" /\ IsMissingParameter(last.ret)) =>
        StrV(ParamName) \in MessageValues(last.ret)

LegacyWins ==
    ~CliPresent /\ ~CurrentPresent /\ LegacyPresent /\ ~IsExc(parse(param, LegacyRaw))

NoticeNames(w) ==
    {w.message.pieces[k].val :
        k \in {j \in 1..Len(w.message.pieces) : "val" \in DOMAIN w.message.pieces[j]}}

\* C6: a deprecation notice naming the legacy [section] name and the new
\* [family] name is emitted exactly when the value read through the legacy
\* config pointer wins.
C6_DeprecationIffLegacyWins ==
    Resolved =>
        /\ LegacyWins <=> last.warnings # <<>>
        /\ \A k \in 1..Len(last.warnings) :
              /\ last.warnings[k].category = "DeprecationWarning"
              /\ {StrV(LegacySection), StrV(LegacyName), StrV(TaskName), StrV(ParamName)}
                    \subseteq NoticeNames(last.warnings[k])
        /\ Len(last.warnings) <= 1

\* the legacy entry won and the notice was emitted
C6_Witness ==
    /\ last.op = "task_value"
    /\ LegacyWins
    /\ cli.active
    /\ DefaultPresent
    /\ Len(last.warnings) = 1

\* C7: when the first present candidate among CLI, config and legacy config
\* holds raw text that parse rejects, the call fails with that parse failure
\* and does not fall through to a lower candidate or the default.
C7_InvalidNeverSkipped ==
    (Resolved /\ FirstRaw # NoValue /\ IsExc(parse(param, FirstRaw))) =>
        last.ret = parse(param, FirstRaw)

\* the current config entry is unparseable, lower candidates are present,
\* and the call failed
C7_Witness ==
    /\ last.op = "task_value"
    /\ ~CliPresent /\ CurrentPresent /\ LegacyPresent /\ DefaultPresent
    /\ ~IsExc(parse(param, LegacyRaw))
    /\ IsExc(last.ret) /\ last.ret.exc = "ValueError"

\* the places of the log where known_args was read
GetattrEvents(log) == {k \in 1..Len(log) : log[k].ev = "getattr"}

\* C18: the CLI candidate is consulted only while a CLI session context is
\* active, under the destination key family + '_' + parameter name; when the
\* raw CLI value is missing, empty or otherwise falsy the candidate is
\* absent without parse being called and resolution continues with the
\* config source; when it is non-falsy the candidate is parse(raw).
C18_CliCandidate ==
    Resolved =>
        /\ GetattrEvents(last.log) = IF cli.active THEN {1} ELSE {}
        /\ \A k \in GetattrEvents(last.log) :
              last.log[k].dest = TaskName \o <<"_">> \o ParamName
        /\ (cli.active /\ ~Truthy(CliFound)) =>
              /\ Len(last.log) >= 2
              /\ last.log[2] = ConfGetEv(TaskName, ParamName)
              /\ \A k \in ParseEvents(last.log) : last.log[k - 1].ev = "conf.get"
        /\ (cli.active /\ Truthy(CliFound)) =>
              /\ last.log = <<GetattrEv(TaskName \o <<"_">> \o ParamName), ParseEv(CliFound)>>
              /\ last.op = "_get_value" => last.ret = parse(param, CliFound)

\* the command line held the empty text for the parameter and the value
\* came from the config entry
C18_Witness ==
    /\ last.op = "_get_value"
    /\ cli.active /\ CliFound = StrV(<<>>)
    /\ CurrentPresent
    /\ last.ret = parse(param, CurrentRaw)
    /\ last.log = <<GetattrEv(TaskName \o <<"_">> \o ParamName),
                    ConfGetEv(TaskName, ParamName), ParseEv(CurrentRaw)>>

\* the raw values of the candidates that are present
PresentRaws ==
    (IF CliPresent THEN {CliFound} ELSE {})
    \cup (IF CurrentPresent THEN {CurrentRaw} ELSE {})
    \cup (IF LegacyPresent THEN {LegacyRaw} ELSE {})

\* C24: a BoolParameter declared without a default has the default False, so
\* its default candidate is never absent: whenever no present value of the
\* command line and the config is unparseable, has_task_value returns True,
\* and task_value never raises the missing-parameter failure for a boolean
\* parameter.
C24_BoolNeverMissing ==
    param.cls = "BoolParameter" =>
        /\ DefaultPresent
        /\ (last.op = "has_task_value"
            /\ \A raw \in PresentRaws : ~IsExc(parse(param, raw)))
              => last.ret = BoolV(TRUE)
        /\ last.op = "task_value" => ~IsMissingParameter(last.ret)

\* a boolean parameter declared without a default was asked for its value
\* with nothing on the command line and nothing in the config
C24_Witness ==
    /\ param.cls = "BoolParameter" /\ param.default = BoolV(FALSE)
    /\ PresentRaws = {}
    /\ last.op = "task_value" /\ last.ret = BoolV(FALSE)

\* what resolution finds from the config entry on: the parse of the current
\* entry, or of the legacy entry, or the default
FromConfigOn ==
    IF CurrentPresent THEN parse(param, CurrentRaw)
    ELSE IF LegacyPresent THEN parse(param, LegacyRaw)
    ELSE param.default

\* C26: for an optional parameter an empty text in the config is a present
\* value None: with no value on the command line and the config entry set
\* to the empty text, has_task_value returns True and task_value returns
\* None whatever default is declared; an empty text on the command line is
\* an absent candidate, and resolution goes on to the config and the default.
C26_EmptyTextOptional ==
    param.cls \in OptionalClasses =>
        /\ (~CliPresent /\ CurrentRaw = StrV(<<>>)) =>
              /\ last.op = "has_task_value" => last.ret = BoolV(TRUE)
              /\ last.op \in {"_get_value", "task_value"} => last.ret = None
        /\ (cli.active /\ CliFound = StrV(<<>>)) =>
              /\ last.op = "_get_value" => last.ret = FromConfigOn
              /\ last.op = "has_task_value" =>
                    \/ IsExc(FromConfigOn) /\ last.ret = FromConfigOn
                    \/ ~IsExc(FromConfigOn) /\ last.ret = BoolV(FromConfigOn # NoValue)

\* the command line and the config both held the empty text for an optional
\* parameter with the default 0, and task_value returned None
C26_Witness ==
    /\ param.cls \in OptionalClasses /\ param.default = IntV(0)
    /\ cli.active /\ CliFound = StrV(<<>>)
    /\ CurrentRaw = StrV(<<>>)
    /\ last.op = "task_value" /\ last.ret = None

\* the command line held the empty text, the config had no entry, and the
\* default 0 was returned
C26_WitnessDefault ==
    /\ param.cls \in OptionalClasses /\ param.default = IntV(0)
    /\ cli.active /\ CliFound = StrV(<<>>)
    /\ ~CurrentPresent /\ ~LegacyPresent
    /\ last.op = "_get_value" /\ last.ret = IntV(0)

----------------------------------------------------------------------------
(* Declaration: Parameter.__init__ run by several threads.  The assignment *)
(* of the ordinal (self._counter = Parameter._counter) and the increment   *)
(* (Parameter._counter += 1: a load and a store) are separate steps, and   *)
(* the interpreter may switch threads between them.                        *)

\* config_path= arguments, the last one lacking 'name'
ConfigPathArgs == ValidConfigPaths \cup {[section |-> LegacySection]}

\* the instance attribute _counter before line 190 assigns it
Unassigned == -1

InFlight == {t \in Threads : pc[t] # "idle"}

\* a counter that a forgotten increment leaves as it was
counter_increment_lost(c) == c

\* the value stored by Parameter._counter += 1
counter_increment(c) == c + 1

InitDeclare ==
    /\ param = None
    /\ cli = NoCmdline
    /\ config = [k \in ConfigKeys |-> Missing]
    /\ last = NoCall
    /\ Parameter_counter = 0
    /\ NoDeclaration
    /\ NoApplication

\* lines 172-188: the attributes are set and config_path is validated
DeclBegin(t) ==
    /\ pc[t] = "idle"
    /\ Len(objs) + Cardinality(InFlight) < MaxParams
    /\ \E cp \in ConfigPathArgs :
          LET self == Parameter_init("Parameter", [config_path |-> cp], Unassigned)
          IN  /\ building' = [building EXCEPT ![t] =
                                [obj |-> self, by |-> t, seen |-> Len(objs)]]
              /\ pc' = [pc EXCEPT ![t] = IF IsExc(self) THEN "idle" ELSE "read"]
              /\ overlapped' = (overlapped \/ (~IsExc(self) /\ InFlight # {}))
    /\ UNCHANGED <<resVars, Parameter_counter, tmp, objs, call>>

\* line 190: self._counter = Parameter._counter
DeclRead(t) ==
    /\ pc[t] = "read"
    /\ building' = [building EXCEPT ![t].obj.counter = Parameter_counter]
    /\ pc' = [pc EXCEPT ![t] = "load"]
    /\ UNCHANGED <<resVars, Parameter_counter, tmp, objs, overlapped, call>>

\* line 191, first half: the operand of += is loaded
DeclLoad(t) ==
    /\ pc[t] = "load"
    /\ tmp' = [tmp EXCEPT ![t] = Parameter_counter]
    /\ pc' = [pc EXCEPT ![t] = "store"]
    /\ UNCHANGED <<resVars, Parameter_counter, building, objs, overlapped, call>>

\* line 191, second half: the sum is stored and __init__ returns
DeclStore(t) ==
    /\ pc[t] = "store"
    /\ Parameter_counter' = counter_increment(tmp[t])
    /\ objs' = Append(objs, building[t])
    /\ building' = [building EXCEPT ![t] = None]
    /\ tmp' = [tmp EXCEPT ![t] = 0]
    /\ pc' = [pc EXCEPT ![t] = "idle"]
    /\ UNCHANGED <<resVars, overlapped, call>>

NextDeclare ==
    \E t \in Threads : DeclBegin(t) \/ DeclRead(t) \/ DeclLoad(t) \/ DeclStore(t)

SpecDeclare == InitDeclare /\ [][NextDeclare]_vars

\* objs[i]'s construction had finished when objs[j]'s started
FinishedBefore(i, j) == i <= objs[j].seen

UniqueAndMonotonic ==
    \A i, j \in 1..Len(objs) :
        /\ i # j => objs[i].obj.counter # objs[j].obj.counter
        /\ FinishedBefore(i, j) => objs[i].obj.counter < objs[j].obj.counter

----------------------------------------------------------------------------
(* Declaration of the variants by one thread: the constructor of the class *)
(* runs its own checks, then Parameter.__init__.                           *)

NoKwargs == << >>

\* the declarations a module makes: the class and its keyword arguments,
\* with and without the arguments the constructors insist on
Declarations ==
    {[cls |-> "Parameter", kwargs |-> [config_path |-> cp]] :
        cp \in ConfigPathArgs \cup {[name |-> LegacyName]}}
    \cup
    {[cls |-> "EnumParameter", kwargs |-> kw] :
        kw \in {NoKwargs, [enum |-> "Model"],
                [enum |-> "Model", config_path |-> [section |-> LegacySection]]}}
    \cup
    {[cls |-> "NumericalParameter", kwargs |-> kw] :
        kw \in {NoKwargs, [var_type |-> "int"],
                [var_type |-> "int", max_value |-> IntV(2)],
                [var_type |-> "int", min_value |-> IntV(0)],
                [var_type |-> "int", min_value |-> IntV(0), max_value |-> IntV(2)]}}
    \cup
    {[cls |-> "ChoiceParameter", kwargs |-> kw] :
        kw \in {NoKwargs, [var_type |-> "int"],
                [var_type |-> "int", choices |-> {IntV(1)}]}}


\* the subclass constructor and lines 172-188: the declaration d is made
ConstructBegin(t) ==
    /\ pc[t] = "idle"
    /\ Len(objs) < MaxParams
    /\ \E d \in Declarations :
          LET Begun(self) ==
                /\ building' = [building EXCEPT ![t] =
                                  [obj |-> self, by |-> t, seen |-> Len(objs),
                                   decl |-> d]]
                /\ pc' = [pc EXCEPT ![t] = IF IsExc(self) THEN "idle" ELSE "read"]
          IN  Begun(Construct(d.cls, d.kwargs, Unassigned))
    /\ UNCHANGED <<resVars, Parameter_counter, tmp, objs, overlapped, call>>

NextConstruct ==
    ConstructBegin(1) \/ DeclRead(1) \/ DeclLoad(1) \/ DeclStore(1)

SpecConstruct == InitDeclare /\ [][NextConstruct]_vars

\* the declaration d lacks an argument its constructor insists on
Misconfigured(d) ==
    \/ /\ "config_path" \in DOMAIN d.kwargs
       /\ d.kwargs.config_path # None
       /\ {"section", "name"} \ DOMAIN d.kwargs.config_path # {}
    \/ d.cls = "EnumParameter" /\ "enum" \notin DOMAIN d.kwargs
    \/ d.cls = "NumericalParameter"
       /\ {"var_type", "min_value", "max_value"} \ DOMAIN d.kwargs # {}
    \/ d.cls = "ChoiceParameter" /\ "choices" \notin DOMAIN d.kwargs

\* C23: a construction with a legacy config pointer lacking 'section' or
\* 'name', or of an enum, numerical or choice variant lacking its required
\* argument, fails with the misconfigured-parameter failure and goes no
\* further; the ordinal counter counts the constructions that succeeded only,
\* and every parameter that exists has a legacy pointer that is absent or
\* carries both section and name.
C23_MisconfigurationLeavesNoTrace ==
    /\ \A t \in Threads :
          (building[t] # None /\ Misconfigured(building[t].decl)) =>
              /\ IsExc(building[t].obj)
              /\ building[t].obj.exc = "ParameterException"
              /\ pc[t] = "idle"
    /\ Parameter_counter = Len(objs)
    /\ \A i \in 1..Len(objs) :
          /\ ~Misconfigured(objs[i].decl)
          /\ \/ objs[i].obj.config_path = None
             \/ {"section", "name"} \subseteq DOMAIN objs[i].obj.config_path

\* after two parameters were declared, a numerical parameter without its
\* max_value failed to construct and the counter still reads two
C23_Witness ==
    /\ Len(objs) = 2 /\ Parameter_counter = 2
    /\ building[1] # None
    /\ building[1].decl.cls = "NumericalParameter"
    /\ DOMAIN building[1].decl.kwargs = {"var_type", "min_value"}
    /\ IsExc(building[1].obj)
    /\ objs[2].obj.config_path # None

----------------------------------------------------------------------------
(* normalize applied to a value, and again to its result                   *)

DateStarts == {None, DateV(2020, 1, 1), DateV(2020, 3, 31)}

DateInputs ==
    { None, DateV(2019, 12, 31), DateV(2020, 1, 1), DateV(2020, 1, 10),
      DateV(2020, 2, 29), DateV(2020, 3, 1), DateV(2020, 12, 31),
      DateV(2021, 3, 15), DatetimeV(1578657599, 999999) }

\* starts on the hour, off the hour, and off the second
DatetimeStarts == {None, DatetimeV(1800, 0), DatetimeV(0, 500000)}

DatetimeInputs ==
    {None, DateV(1970, 1, 2)}
    \cup {DatetimeV(sec, us) : sec \in {-1, 0, 59, 3599, 3600, 36000, 86399},
                               us \in {0, 500000, 999999}}

BoolInputs ==
    {None, BoolV(TRUE), BoolV(FALSE), IntV(1)} \cup {StrV(txt) : txt \in RawTexts}

ChoiceInputs == {IntV(1), IntV(2), IntV(3), BoolV(TRUE), StrV(<<"1">>), None}

PathInputs ==
    { None, StrV(<<>>), StrV(<<"a">>), StrV(<<"b">>), StrV(<<"/", "w", "/", "a">>),
      PathV(<<"a">>), PathV(<<"/", "x">>) }

CompositeInputs ==
    { None, IntV(1), ListV(<<>>), ListV(<<IntV(1), ListV(<<IntV(2)>>)>>),
      TupleV(<<IntV(1), TupleV(<<IntV(2)>>)>>),
      DictV(<< <<StrV(<<"b">>), IntV(1)>>, <<StrV(<<"a">>), ListV(<<IntV(2)>>)>> >>),
      DictV(<< <<StrV(<<"a">>), DictV(<< <<StrV(<<"b">>), ListV(<<>>)>> >>)>> >>),
      FrozenOrderedDictV(<< <<StrV(<<"a">>), TupleV(<<IntV(2)>>)>> >>),
      ListV(<< DictV(<< <<StrV(<<"a">>), IntV(1)>> >>) >>) }

\* the parameters normalize is applied on, each with its arguments
NormalizeCases ==
    {[self |-> Construct(cls, [interval |-> n, start |-> st], 0), x |-> x] :
        cls \in DateClasses, n \in 1..MaxInterval, st \in DateStarts, x \in DateInputs}
    \cup
    {[self |-> Construct(cls, [interval |-> n, start |-> st], 0), x |-> x] :
        cls \in DatetimeClasses, n \in 1..MaxInterval, st \in DatetimeStarts,
        x \in DatetimeInputs}
    \cup
    {[self |-> Construct(cls, NoKwargs, 0), x |-> x] :
        cls \in {"BoolParameter", "OptionalBoolParameter", "Parameter",
                  "IntParameter", "OptionalIntParameter"},
        x \in BoolInputs}
    \cup
    {[self |-> Construct(cls, [choices |-> {IntV(1), IntV(2)}, var_type |-> "int"], 0),
      x |-> x] :
        cls \in {"ChoiceParameter", "OptionalChoiceParameter"}, x \in ChoiceInputs}
    \cup
    {[self |-> Construct(cls, [absolute |-> a, exists |-> e], 0), x |-> x] :
        cls \in {"PathParameter", "OptionalPathParameter"}, a \in BOOLEAN,
        e \in BOOLEAN, x \in PathInputs}
    \cup
    {[self |-> Construct(cls, NoKwargs, 0), x |-> x] :
        cls \in {"DictParameter", "ListParameter", "TupleParameter",
                  "OptionalDictParameter", "OptionalListParameter"},
        x \in CompositeInputs}

\* no parameter resolution is going on
NoResolution ==
    /\ param = None
    /\ cli = NoCmdline
    /\ config = [k \in ConfigKeys |-> Missing]
    /\ last = NoCall

InitNormalize ==
    /\ NoResolution
    /\ Parameter_counter = 1
    /\ NoDeclaration
    /\ \E c \in NormalizeCases :
          call = [fn |-> "normalize", self |-> c.self, x |-> c.x, stage |-> 0,
                  r1 |-> None, r2 |-> None]

\* y = self.normalize(x)
ApplyNormalize ==
    /\ call.fn = "normalize" /\ call.stage = 0
    /\ call' = [call EXCEPT !.stage = 1, !.r1 = normalize(call.self, call.x)]
    /\ UNCHANGED <<resVars, Parameter_counter, declVars>>

\* self.normalize(y), when the first call returned
ApplyNormalizeAgain ==
    /\ call.fn = "normalize" /\ call.stage = 1
    /\ ~IsExc(call.r1)
    /\ call' = [call EXCEPT !.stage = 2, !.r2 = normalize(call.self, call.r1)]
    /\ UNCHANGED <<resVars, Parameter_counter, declVars>>

NextNormalize == ApplyNormalize \/ ApplyNormalizeAgain

SpecNormalize == InitNormalize /\ [][NextNormalize]_vars

\* C8: normalize is idempotent for every variant: whenever normalize(x)
\* succeeds, normalize(normalize(x)) = normalize(x).
C8_NormalizeIdempotent ==
    (call.fn = "normalize" /\ call.stage = 2) => call.r2 = call.r1

\* no part of v, at any depth, is a mutable dict or list
RECURSIVE IsFrozen(_)
IsFrozen(v) ==
    CASE v.t \in {"dict", "list"} -> FALSE
      [] v.t = "FrozenOrderedDict" ->
            \A k \in 1..Len(v.items) : IsFrozen(v.items[k][2])
      [] v.t = "tuple" -> \A k \in 1..Len(v.items) : IsFrozen(v.items[k])
      [] OTHER -> TRUE

\* the keys and scalars of v in iteration order, each nesting in brackets
RECURSIVE Leaves(_)
RECURSIVE LeavesOf(_, _)
Leaves(v) ==
    CASE v.t \in {"dict", "FrozenOrderedDict"} ->
            <<[t |-> "{"]>> \o LeavesOf(v.items, TRUE) \o <<[t |-> "}"]>>
      [] v.t \in {"list", "tuple"} ->
            <<[t |-> "("]>> \o LeavesOf(v.items, FALSE) \o <<[t |-> ")"]>>
      [] OTHER -> <<v>>
LeavesOf(items, keyed) ==
    IF items = <<>> THEN <<>>
    ELSE (IF keyed THEN <<Head(items)[1]>> \o Leaves(Head(items)[2])
                   ELSE Leaves(Head(items)))
         \o LeavesOf(Tail(items), keyed)

\* a composite variant has normalized a value twice
FrozenTwice ==
    /\ call.fn = "normalize" /\ call.stage = 2
    /\ call.self.cls \in {"DictParameter", "ListParameter", "TupleParameter"}

\* C22: the canonicalization behind the composite variants' normalize is
\* idempotent and order-preserving: freezing the frozen value gives it back,
\* a scalar is returned unchanged, no nested mapping or sequence of the result
\* is left mutable, inputs of the same structure give equal results, and the
\* frozen mapping iterates its keys in the insertion order of the original.
C22_FreezeCanonical ==
    FrozenTwice =>
        /\ call.r2 = call.r1
        /\ IsFrozen(call.r1)
        /\ Leaves(call.r1) = Leaves(call.x)
        /\ (call.x.t \notin {"dict", "FrozenOrderedDict", "list", "tuple"}
                => call.r1 = call.x)
        /\ \A c \in NormalizeCases :
              (c.self = call.self /\ Leaves(c.x) = Leaves(call.x))
                  => normalize(c.self, c.x) = call.r1

\* a mapping of two keys inserted out of alphabetical order, holding a list,
\* was frozen twice
C22_Witness ==
    /\ FrozenTwice
    /\ call.x.t = "dict" /\ Len(call.x.items) = 2
    /\ call.x.items[1][1] = StrV(<<"b">>)
    /\ call.r1.t = "FrozenOrderedDict"
    /\ call.r1.items[1][1] = StrV(<<"b">>)
    /\ call.r1.items[2][2].t = "tuple"

----------------------------------------------------------------------------
(* Serialization round trip: serialize a normalized value, parse the text  *)
(* and normalize what parse returns.                                       *)

\* starts on the hour, so that every format keeps what normalize leaves
AlignedStarts == {None, DatetimeV(3600, 0)}

\* whole-second durations, negative ones included
WholeSecondDurations ==
    {TimedeltaV(days, seconds, 0) : days \in {-8, -1, 0, 1, 9},
                                    seconds \in {0, 1, 59, 3661, 86399}}

\* parameters with candidate values of their type
RoundTripCandidates ==
    {[self |-> Construct(cls, [interval |-> n, start |-> st], 0), x |-> x] :
        cls \in DateClasses, n \in 1..MaxInterval, st \in DateStarts,
        x \in {d \in DateInputs : d.t = "date"}}
    \cup
    {[self |-> Construct(cls, [interval |-> n, start |-> st], 0), x |-> x] :
        cls \in DatetimeClasses, n \in 1..MaxInterval, st \in AlignedStarts,
        x \in {d \in DatetimeInputs : d.t = "datetime"}}
    \cup
    {[self |-> Construct("Parameter", NoKwargs, 0), x |-> StrV(txt)] : txt \in RawTexts}
    \cup
    {[self |-> Construct(cls, NoKwargs, 0), x |-> x] :
        cls \in {"IntParameter", "OptionalIntParameter"},
        x \in {IntV(i) : i \in -2..2} \cup {None}}
    \cup
    {[self |-> Construct(cls, NoKwargs, 0), x |-> x] :
        cls \in {"BoolParameter", "OptionalBoolParameter"},
        x \in {BoolV(TRUE), BoolV(FALSE), None}}
    \cup
    {[self |-> Construct("TimeDeltaParameter", NoKwargs, 0), x |-> x] :
        x \in WholeSecondDurations}
    \cup
    {[self |-> Construct(cls, [choices |-> {IntV(1), IntV(2)}, var_type |-> "int"], 0),
      x |-> x] :
        cls \in {"ChoiceParameter", "OptionalChoiceParameter"}, x \in ChoiceInputs}
    \cup
    {[self |-> Construct(cls, [choices |-> {StrV(<<"x">>), StrV(<<"1">>)}], 0), x |-> x] :
        cls \in {"ChoiceParameter", "OptionalChoiceParameter"},
        x \in {StrV(<<"x">>), StrV(<<"1">>), None}}
    \cup
    {[self |-> Construct(cls, [absolute |-> a, exists |-> e], 0), x |-> x] :
        cls \in {"PathParameter", "OptionalPathParameter"}, a \in BOOLEAN,
        e \in BOOLEAN, x \in PathInputs}

\* whether x is a value of the variant: None only for an optional wrapper
ValueOf(self, x) ==
    /\ x = None => self.cls \in OptionalClasses
    /\ Super(self.cls) = "IntParameter" /\ x # None => x.t = "int"
    /\ Super(self.cls) = "PathParameter" /\ x # None => x.t = "Path"
    /\ Super(self.cls) = "ChoiceParameter" /\ x # None => PyType(x) = self.var_type

\* the cases of the round trip: x is a valid normalized value of self
RoundTripCases ==
    {c \in RoundTripCandidates : ValueOf(c.self, c.x) /\ normalize(c.self, c.x) = c.x}

InitRoundTrip ==
    /\ NoResolution
    /\ Parameter_counter = 1
    /\ NoDeclaration
    /\ \E c \in RoundTripCases :
          call = [fn |-> "roundtrip", self |-> c.self, x |-> c.x, stage |-> 0,
                  s |-> None, parsed |-> None, r |-> None]

\* s = self.serialize(x)
RoundTripSerialize ==
    /\ call.fn = "roundtrip" /\ call.stage = 0
    /\ call' = [call EXCEPT !.stage = 1, !.s = StrV(serialize(call.self, call.x))]
    /\ UNCHANGED <<resVars, Parameter_counter, declVars>>

\* v = self.parse(s)
RoundTripParse ==
    /\ call.fn = "roundtrip" /\ call.stage = 1
    /\ call' = [call EXCEPT !.stage = 2, !.parsed = parse(call.self, call.s)]
    /\ UNCHANGED <<resVars, Parameter_counter, declVars>>

\* self.normalize(v), when parse returned
RoundTripNormalize ==
    /\ call.fn = "roundtrip" /\ call.stage = 2
    /\ ~IsExc(call.parsed)
    /\ call' = [call EXCEPT !.stage = 3, !.r = normalize(call.self, call.parsed)]
    /\ UNCHANGED <<resVars, Parameter_counter, declVars>>

NextRoundTrip == RoundTripSerialize \/ RoundTripParse \/ RoundTripNormalize

SpecRoundTrip == InitRoundTrip /\ [][NextRoundTrip]_vars

\* C9: for every variant and every valid normalized value x of it,
\* parse(serialize(x)) succeeds and normalize(parse(serialize(x))) = x; for
\* the time-delta variant, for every whole-second duration.
C9_RoundTrip ==
    call.fn = "roundtrip" =>
        /\ call.stage >= 2 => ~IsExc(call.parsed)
        /\ call.stage = 3 => call.r = call.x

----------------------------------------------------------------------------
(* Batch composition: _parse_list on the raw values the scheduler passes   *)

\* raw values, one of them not an integer
BatchRaw == {StrV(<<"1">>), StrV(<<"-", "2">>), StrV(<<"x">>)}

\* the sequences of raw values of up to MaxLen elements
BatchInputs == UNION {[1..n -> BatchRaw] : n \in 0..MaxLen}

\* parameters without and with a batch method
BatchParameters ==
    {Construct("Parameter", [batch_method |-> f], 0) :
        f \in {None, Function("tuple"), Function("join")}}
    \cup
    {Construct("IntParameter", [batch_method |-> f], 0) :
        f \in {None, Function("tuple"), Function("join"), Function("max")}}

InitBatch ==
    /\ NoResolution
    /\ Parameter_counter = 1
    /\ NoDeclaration
    /\ \E self \in BatchParameters, xs \in BatchInputs :
          call = [fn |-> "_parse_list", self |-> self, xs |-> xs, stage |-> 0, r |-> None]

\* self._parse_list(xs)
CallParseList ==
    /\ call.fn = "_parse_list" /\ call.stage = 0
    /\ call' = [call EXCEPT !.stage = 1, !.r = parse_list(call.self, call.xs)]
    /\ UNCHANGED <<resVars, Parameter_counter, declVars>>

NextBatch == CallParseList

SpecBatch == InitBatch /\ [][NextBatch]_vars

\* the element-wise parse of the raw values of the call
BatchParsed == [k \in 1..Len(call.xs) |-> parse(call.self, call.xs[k])]

\* C10: with a combinator and a non-empty xs, _parse_list returns the
\* combinator applied to the element-wise parse of xs in the original order;
\* without a combinator it fails with NotImplementedError for every input,
\* the empty sequence included; with a combinator and an empty xs it fails
\* with ValueError.
C10_BatchComposition ==
    (call.fn = "_parse_list" /\ call.stage = 1) =>
        /\ call.self.batch_method = None =>
              (IsExc(call.r) /\ call.r.exc = "NotImplementedError")
        /\ (call.self.batch_method # None /\ call.xs = <<>>) =>
              (IsExc(call.r) /\ call.r.exc = "ValueError"
                  /\ call.r.args = <<Lit("Empty parameter list passed to parse_list")>>)
        /\ (call.self.batch_method # None /\ call.xs # <<>>
                /\ \A k \in 1..Len(call.xs) : ~IsExc(BatchParsed[k])) =>
              /\ call.r = batch_method_call(call.self.batch_method, BatchParsed)
              /\ call.self.batch_method = Function("tuple") =>
                    /\ Len(call.r.items) = Len(call.xs)
                    /\ \A k \in 1..Len(call.xs) :
                          call.r.items[k] = parse(call.self, call.xs[k])

\* an integer parameter combined two different raw values with tuple, and
\* the result holds their parses in the order of xs
C10_Witness ==
    /\ call.fn = "_parse_list" /\ call.stage = 1
    /\ call.self.cls = "IntParameter"
    /\ call.self.batch_method = Function("tuple")
    /\ call.xs = <<StrV(<<"1">>), StrV(<<"-", "2">>)>>
    /\ call.r = TupleV(<<IntV(1), IntV(-2)>>)

----------------------------------------------------------------------------
(* Methods applied on a parameter: parse, normalize and serialize of one   *)
(* value, each called once, in any order.                                  *)

Unset == [t |-> "unset"]

\* the texts of the integers around the bounds, and texts that are none
NumericalTexts ==
    {StrV(IntToText(i)) : i \in -5..8} \cup {StrV(<<"x">>), StrV(<<>>)}

NumericalCases ==
    {[self |-> Construct("NumericalParameter",
                         [var_type |-> "int", min_value |-> IntV(lo), max_value |-> IntV(hi),
                          left_op |-> l, right_op |-> r], 0),
      x |-> x, methods |-> {"parse"}] :
        lo \in {-3, 0}, hi \in {0, 7}, l \in {"le", "lt"}, r \in {"le", "lt"},
        x \in NumericalTexts}
    \cup
    {[self |-> Construct("NumericalParameter",
                         [var_type |-> "int", min_value |-> IntV(-3), max_value |-> IntV(7)],
                         0),
      x |-> x, methods |-> {"parse"}] : x \in NumericalTexts}

\* date parameters with the interval and the start of the documentation
\* beside the small ones, on dates before and after the start
DateCases ==
    {[self |-> Construct(cls, [interval |-> n, start |-> st], 0), x |-> x,
      methods |-> {"normalize", "next_in_enumeration"}] :
        cls \in DateClasses, n \in (1..MaxInterval) \cup {7}, st \in DateStarts,
        x \in DateInputs \cup {DateV(2020, 1, 8), DateV(2021, 12, 1), DateV(2019, 11, 1),
                               DateV(2020, 1, 31)}}

\* a word in every mix of small and capital letters
CaseVariants(small, capital) ==
    {txt \in [1..Len(small) -> {small[k] : k \in 1..Len(small)}
                                   \cup {capital[k] : k \in 1..Len(small)}] :
        \A k \in 1..Len(small) : txt[k] \in {small[k], capital[k]}}

TrueTexts == CaseVariants(<<"t", "r", "u", "e">>, <<"T", "R", "U", "E">>)
FalseTexts == CaseVariants(<<"f", "a", "l", "s", "e">>, <<"F", "A", "L", "S", "E">>)

\* texts that are neither word, and values that are not text
OtherTexts ==
    { <<>>, <<"1">>, <<"0">>, <<"y", "e", "s">>, <<"t">>, <<" ", "t", "r", "u", "e">>,
      <<"t", "r", "u", "e", " ">>, <<"t", "r", "u", "e", "e">>, <<"f", "a", "l", "s">>,
      <<"N", "o", "n", "e">>, <<"t", "r", "u", "e", "f", "a", "l", "s", "e">> }

BoolCases ==
    {[self |-> Construct("BoolParameter", NoKwargs, 0), x |-> x,
      methods |-> {"parse", "normalize"}] :
        x \in {StrV(txt) : txt \in TrueTexts \cup FalseTexts \cup OtherTexts}
               \cup {BoolV(TRUE), BoolV(FALSE), None, IntV(0), IntV(1)}}

\* None, the empty text, texts and values that are not text
OptionalInputs ==
    { None, StrV(<<>>), StrV(<<"1">>), StrV(<<"3">>), StrV(<<"a">>), StrV(<<"t", "r", "u", "e">>),
      StrV(<<"N", "o", "n", "e">>), StrV(<<"/", "x">>), IntV(0), IntV(1), IntV(3),
      BoolV(TRUE), BoolV(FALSE), PathV(<<"a">>) }

\* the optional wrappers over the plain, integer, boolean, choice and path
\* parameters
OptionalParameters ==
    {Construct(cls, NoKwargs, 0) :
        cls \in {"OptionalParameter", "OptionalIntParameter", "OptionalBoolParameter"}}
    \cup {Construct("OptionalChoiceParameter",
                    [var_type |-> "int", choices |-> {IntV(1), IntV(2)}], 0)}
    \cup {Construct("OptionalPathParameter", [absolute |-> a, exists |-> e], 0) :
            a, e \in BOOLEAN}

OptionalCases ==
    {[self |-> self, x |-> x, methods |-> {"parse", "normalize", "serialize"}] :
        self \in OptionalParameters, x \in OptionalInputs}

\* the unit fields written in a text
UnitFields(w, d, h, m, s) ==
    [weeks |-> w, days |-> d, hours |-> h, minutes |-> m, seconds |-> s]

\* texts of durations with the form each is written in (plain seconds, ISO
\* 8601, the short form, or none of them: no form at all, or short fields
\* out of the descending order of units) and the unit fields written in it
TimeDeltaTexts ==
    { [x |-> StrV(<<"9", "0">>), form |-> "seconds",
       fields |-> UnitFields(0, 0, 0, 0, 90)],
      [x |-> StrV(<<"P", "1", "W">>), form |-> "iso",
       fields |-> UnitFields(1, 0, 0, 0, 0)],
      [x |-> StrV(<<"7", " ", "d">>), form |-> "simple",
       fields |-> UnitFields(0, 7, 0, 0, 0)],
      [x |-> StrV(<<"P", "2", "D", "T", "3", "H">>), form |-> "iso",
       fields |-> UnitFields(0, 2, 3, 0, 0)],
      [x |-> StrV(<<"P", "T", "4", "M", "5", "S">>), form |-> "iso",
       fields |-> UnitFields(0, 0, 0, 4, 5)],
      [x |-> StrV(<<"P", "1", "W", "2", "D">>), form |-> "iso",
       fields |-> UnitFields(1, 2, 0, 0, 0)],
      [x |-> StrV(<<"P", "1", "W", "T", "3", "H">>), form |-> "iso",
       fields |-> UnitFields(1, 0, 3, 0, 0)],
      [x |-> StrV(<<"1", " ", "w", " ", "2", " ", "d">>), form |-> "simple",
       fields |-> UnitFields(1, 2, 0, 0, 0)],
      [x |-> StrV(<<"1", " ", "w", "e", "e", "k", " ", "2", " ", "d", "a", "y", "s">>), form |-> "simple",
       fields |-> UnitFields(1, 2, 0, 0, 0)],
      [x |-> StrV(<<"3", "h", "4", "m">>), form |-> "simple",
       fields |-> UnitFields(0, 0, 3, 4, 0)],
      [x |-> StrV(<<"2", " ", "d", " ", "1", " ", "w">>), form |-> "none",
       fields |-> UnitFields(1, 2, 0, 0, 0)],
      [x |-> StrV(<<"5", " ", "s", " ", "1", " ", "h">>), form |-> "none",
       fields |-> UnitFields(0, 0, 1, 0, 5)],
      [x |-> StrV(<<"x">>), form |-> "none",
       fields |-> UnitFields(0, 0, 0, 0, 0)],
      [x |-> StrV(<<"P">>), form |-> "none",
       fields |-> UnitFields(0, 0, 0, 0, 0)],
      [x |-> StrV(<<>>), form |-> "none",
       fields |-> UnitFields(0, 0, 0, 0, 0)] }

TimeDeltaCases ==
    {[self |-> Construct("TimeDeltaParameter", NoKwargs, 0), x |-> c.x,
      methods |-> {"parse"}] : c \in TimeDeltaTexts}

CompositeClasses == {"DictParameter", "ListParameter", "TupleParameter"}

Undecodable == [t |-> "undecodable"]

\* texts with the structure each denotes as JSON and as a Python literal
CompositeTexts ==
    { [x |-> StrV(<<"{", "\"", "a", "\"", ":", " ", "1", "}">>),
       json |-> FrozenOrderedDictV(<<<<StrV(<<"a">>), IntV(1)>>>>),
       literal |-> DictV(<<<<StrV(<<"a">>), IntV(1)>>>>)],
      [x |-> StrV(<<"{", "\"", "a", "\"", ":", " ", "[", "1", ",", " ", "2", "]", ",", " ", "\"", "b", "\"", ":", " ", "{", "\"", "c", "\"", ":", " ", "n", "u", "l", "l", "}", "}">>),
       json |-> FrozenOrderedDictV(<<<<StrV(<<"a">>), ListV(<<IntV(1), IntV(2)>>)>>, <<StrV(<<"b">>), FrozenOrderedDictV(<<<<StrV(<<"c">>), None>>>>)>>>>),
       literal |-> Undecodable],
      [x |-> StrV(<<"[", "1", ",", " ", "2", "]">>),
       json |-> ListV(<<IntV(1), IntV(2)>>),
       literal |-> ListV(<<IntV(1), IntV(2)>>)],
      [x |-> StrV(<<"[", "[", "\"", "a", "b", "\"", ",", " ", "1", "]", "]">>),
       json |-> ListV(<<ListV(<<StrV(<<"a", "b">>), IntV(1)>>)>>),
       literal |-> ListV(<<ListV(<<StrV(<<"a", "b">>), IntV(1)>>)>>)],
      [x |-> StrV(<<"[", "[", "1", ",", " ", "2", "]", ",", " ", "[", "3", ",", " ", "4", "]", "]">>),
       json |-> ListV(<<ListV(<<IntV(1), IntV(2)>>), ListV(<<IntV(3), IntV(4)>>)>>),
       literal |-> ListV(<<ListV(<<IntV(1), IntV(2)>>), ListV(<<IntV(3), IntV(4)>>)>>)],
      [x |-> StrV(<<"(", "(", "1", ",", "2", ")", ",", "(", "3", ",", "4", ")", ")">>),
       json |-> Undecodable,
       literal |-> TupleV(<<TupleV(<<IntV(1), IntV(2)>>), TupleV(<<IntV(3), IntV(4)>>)>>)],
      [x |-> StrV(<<"(", "1", ",", " ", "2", ")">>),
       json |-> Undecodable,
       literal |-> TupleV(<<IntV(1), IntV(2)>>)],
      [x |-> StrV(<<"[", "]">>),
       json |-> ListV(<<>>),
       literal |-> ListV(<<>>)],
      [x |-> StrV(<<"n", "u", "l", "l">>),
       json |-> None,
       literal |-> Undecodable],
      [x |-> StrV(<<"[", "1">>),
       json |-> Undecodable,
       literal |-> Undecodable],
      [x |-> StrV(<<"x">>),
       json |-> Undecodable,
       literal |-> Undecodable] }

\* values that are structured already
StructuredValues ==
    { ListV(<<IntV(1), IntV(2)>>), ListV(<<>>),
      TupleV(<<TupleV(<<IntV(1), IntV(2)>>), TupleV(<<IntV(3), IntV(4)>>)>>),
      DictV(<< <<StrV(<<"a">>), IntV(1)>> >>),
      FrozenOrderedDictV(<< <<StrV(<<"a">>), ListV(<<IntV(1)>>)>> >>) }

CompositeCases ==
    {[self |-> Construct(cls, NoKwargs, 0), x |-> x, methods |-> {"parse"}] :
        cls \in CompositeClasses,
        x \in {c.x : c \in CompositeTexts} \cup StructuredValues}

\* datetime parameters of the three granularities, with starts on and off
\* the whole second, on dates and datetimes around the boundaries
DatetimeCases ==
    {[self |-> Construct(cls, [interval |-> n, start |-> st], 0), x |-> x,
      methods |-> {"normalize", "next_in_enumeration"}] :
        cls \in DatetimeClasses, n \in 1..MaxInterval, st \in DatetimeStarts,
        x \in DatetimeInputs \ {None}}

ApplyCases ==
    NumericalCases \cup DateCases \cup BoolCases \cup OptionalCases \cup TimeDeltaCases
        \cup CompositeCases \cup DatetimeCases

InitApply ==
    /\ NoResolution
    /\ Parameter_counter = 1
    /\ NoDeclaration
    /\ \E c \in ApplyCases :
          call = [fn |-> "apply", self |-> c.self, x |-> c.x, methods |-> c.methods,
                  parsed |-> Unset, normalized |-> Unset, serialized |-> Unset,
                  next |-> Unset]

\* self.parse(x)
CallParse ==
    /\ call.fn = "apply" /\ "parse" \in call.methods /\ call.parsed = Unset
    /\ call' = [call EXCEPT !.parsed = parse(call.self, call.x)]
    /\ UNCHANGED <<resVars, Parameter_counter, declVars>>

\* self.normalize(x)
CallNormalize ==
    /\ call.fn = "apply" /\ "normalize" \in call.methods /\ call.normalized = Unset
    /\ call' = [call EXCEPT !.normalized = normalize(call.self, call.x)]
    /\ UNCHANGED <<resVars, Parameter_counter, declVars>>

\* self.serialize(x)
CallSerialize ==
    /\ call.fn = "apply" /\ "serialize" \in call.methods /\ call.serialized = Unset
    /\ call' = [call EXCEPT !.serialized = StrV(serialize(call.self, call.x))]
    /\ UNCHANGED <<resVars, Parameter_counter, declVars>>

\* self.next_in_enumeration(x), for a value x of the type of the parameter
CallNextInEnumeration ==
    /\ call.fn = "apply" /\ "next_in_enumeration" \in call.methods /\ call.next = Unset
    /\ call.x.t = IF call.self.cls \in DatetimeClasses THEN "datetime" ELSE "date"
    /\ call' = [call EXCEPT !.next = next_in_enumeration(call.self, call.x)]
    /\ UNCHANGED <<resVars, Parameter_counter, declVars>>

NextApply == CallParse \/ CallNormalize \/ CallSerialize \/ CallNextInEnumeration

SpecApply == InitApply /\ [][NextApply]_vars

\* parse was called on a parameter of class cls
Parsed(cls) == call.fn = "apply" /\ call.self.cls = cls /\ call.parsed # Unset

\* whether value lies in the interval of the numerical parameter
InInterval(self, value) ==
    /\ IF self.left_op = "le" THEN self.min_value.i <= value.i
       ELSE self.min_value.i < value.i
    /\ IF self.right_op = "lt" THEN value.i < self.max_value.i
       ELSE value.i <= self.max_value.i

\* C11: NumericalParameter.parse returns v = var_type(s) if and only if
\* left_op(min_value, v) and right_op(v, max_value) hold; every other
\* converted value is rejected with an invalid-value error naming the
\* permitted interval; with var_type=int, min_value=-3, max_value=7 and the
\* default operators it accepts exactly the integers -3..6.
C11_NumericalInterval ==
    (Parsed("NumericalParameter") /\ ~IsExc(PyInt(call.x))) =>
        /\ call.parsed = PyInt(call.x) <=> InInterval(call.self, PyInt(call.x))
        /\ ~InInterval(call.self, PyInt(call.x)) =>
              /\ IsExc(call.parsed) /\ call.parsed.exc = "ValueError"
              /\ Val(call.self.permitted_range) \in
                    {call.parsed.args[k] : k \in 1..Len(call.parsed.args)}
              /\ IntToText(call.self.min_value.i) \in
                    {SubSeq(call.self.permitted_range.s, a, b) :
                        a, b \in 1..Len(call.self.permitted_range.s)}
              /\ IntToText(call.self.max_value.i) \in
                    {SubSeq(call.self.permitted_range.s, a, b) :
                        a, b \in 1..Len(call.self.permitted_range.s)}
        /\ (call.self.min_value = IntV(-3) /\ call.self.max_value = IntV(7)
               /\ call.self.left_op = "le" /\ call.self.right_op = "lt") =>
              (~IsExc(call.parsed) <=> PyInt(call.x).i \in -3..6)

\* with the default operators, -3 and 7 as bounds: 7 was rejected
C11_Witness ==
    /\ Parsed("NumericalParameter")
    /\ call.self.min_value = IntV(-3) /\ call.self.max_value = IntV(7)
    /\ call.self.left_op = "le" /\ call.self.right_op = "lt"
    /\ call.x = StrV(<<"7">>)
    /\ IsExc(call.parsed)

\* normalize was called on a parameter of class cls
Normalized(cls) == call.fn = "apply" /\ call.self.cls = cls /\ call.normalized # Unset

\* next_in_enumeration was called on a parameter of class cls
Enumerated(cls) == call.fn = "apply" /\ call.self.cls = cls /\ call.next # Unset

\* d is a date of the calendar
IsCalendarDate(d) ==
    d.t = "date" /\ d.month \in 1..12 /\ d.day \in 1..DaysInMonth(d.year, d.month)

\* C12: DateParameter.normalize clamps to the nearest preceding interval
\* boundary measured from start: r = normalize(d) satisfies r <= d,
\* d - r < N days and (r - s) is a whole multiple of N days, also when d lies
\* before s; next_in_enumeration(r) = r + N days is again a boundary.
C12_DateClamp ==
    /\ (Normalized("DateParameter") /\ call.x.t = "date") =>
          /\ IsCalendarDate(call.normalized)
          /\ Ymd2Ord(call.normalized) <= Ymd2Ord(call.x)
          /\ Ymd2Ord(call.x) - Ymd2Ord(call.normalized) < call.self.interval
          /\ (Ymd2Ord(call.normalized) - Ymd2Ord(call.self.start)) % call.self.interval = 0
    /\ (Normalized("DateParameter") /\ call.self.interval = 7
           /\ call.self.start = DateV(2020, 1, 1) /\ call.x = DateV(2020, 1, 10)) =>
          call.normalized = DateV(2020, 1, 8)
    /\ (Enumerated("DateParameter") /\ normalize(call.self, call.x) = call.x) =>
          /\ IsCalendarDate(call.next)
          /\ Ymd2Ord(call.next) = Ymd2Ord(call.x) + call.self.interval
          /\ (Ymd2Ord(call.next) - Ymd2Ord(call.self.start)) % call.self.interval = 0
          /\ normalize(call.self, call.next) = call.next

\* interval=7 and start=2020-03-31: 2020-01-10, before the start, was
\* clamped to 2020-01-07, a boundary 12 intervals before the start
C12_Witness ==
    /\ Normalized("DateParameter")
    /\ call.self.interval = 7 /\ call.self.start = DateV(2020, 3, 31)
    /\ call.x = DateV(2020, 1, 10)
    /\ call.normalized = DateV(2020, 1, 7)

\* the number of the calendar month of a date, counted from year 0
MonthIndex(d) == d.year * 12 + (d.month - 1)

\* C13: MonthParameter counts in calendar months: normalize(d) is the first
\* day of the latest month m <= month(d) whose distance in months from
\* start's month is a multiple of interval, also before start;
\* next_in_enumeration(d) is the first day of the month exactly interval
\* months later, with the month in 1..12 and the year rolled over.
C13_MonthArithmetic ==
    /\ (Normalized("MonthParameter") /\ call.x.t = "date") =>
          /\ IsCalendarDate(call.normalized) /\ call.normalized.day = 1
          /\ MonthIndex(call.normalized) <= MonthIndex(call.x)
          /\ MonthIndex(call.x) - MonthIndex(call.normalized) < call.self.interval
          /\ (MonthIndex(call.normalized) - MonthIndex(call.self.start))
                 % call.self.interval = 0
    /\ (Normalized("MonthParameter") /\ call.self.interval = 1
           /\ call.x = DateV(2021, 3, 15)) =>
          call.normalized = DateV(2021, 3, 1)
    /\ Enumerated("MonthParameter") =>
          /\ IsCalendarDate(call.next) /\ call.next.day = 1
          /\ MonthIndex(call.next) = MonthIndex(call.x) + call.self.interval

\* next_in_enumeration of 2021-12-01 with interval=1 gave 2022-01-01
C13_Witness ==
    /\ Enumerated("MonthParameter")
    /\ call.self.interval = 1
    /\ call.x = DateV(2021, 12, 1)
    /\ call.next = DateV(2022, 1, 1)

\* C14: BoolParameter.parse returns true for text equal to 'true' and false
\* for text equal to 'false' in any letter case, and fails with an
\* invalid-value error for every other text; BoolParameter.normalize returns
\* the same for those texts and for the booleans, and none for every other
\* input.
C14_BoolParseNormalize ==
    /\ (Parsed("BoolParameter") /\ IsStr(call.x)) =>
          /\ call.x.s \in TrueTexts => call.parsed = BoolV(TRUE)
          /\ call.x.s \in FalseTexts => call.parsed = BoolV(FALSE)
          /\ call.x.s \notin TrueTexts \cup FalseTexts =>
                (IsExc(call.parsed) /\ call.parsed.exc = "ValueError")
    /\ Normalized("BoolParameter") =>
          /\ (IsStr(call.x) /\ call.x.s \in TrueTexts) => call.normalized = BoolV(TRUE)
          /\ (IsStr(call.x) /\ call.x.s \in FalseTexts) => call.normalized = BoolV(FALSE)
          /\ call.x \in {BoolV(TRUE), BoolV(FALSE)} => call.normalized = call.x
          /\ (call.x \notin {BoolV(TRUE), BoolV(FALSE)}
                 /\ ~(IsStr(call.x) /\ call.x.s \in TrueTexts \cup FalseTexts)) =>
                call.normalized = None

\* a text that is neither word failed in parse and gave none in normalize
C14_Witness ==
    /\ Parsed("BoolParameter") /\ Normalized("BoolParameter")
    /\ call.x = StrV(<<"y", "e", "s">>)
    /\ IsExc(call.parsed)
    /\ call.normalized = None

\* the parameter of the wrapped class with the fields of self
Wrapped(self) == [self EXCEPT !.cls = Super(self.cls)]

\* C15: the optional wrapper over any variant: parse passes every non-text
\* input through unchanged, maps the empty text to None and hands every
\* non-empty text to the parse of the wrapped variant; serialize maps None to
\* the empty text and otherwise hands on; normalize maps None to None and
\* otherwise hands on; parse(serialize(None)) = None, and normalize of None is
\* None also where the wrapped normalize fails on None.
C15_OptionalWrapper ==
    (call.fn = "apply" /\ call.self.cls \in OptionalClasses) =>
        /\ call.parsed # Unset =>
              call.parsed = IF ~IsStr(call.x) THEN call.x
                            ELSE IF call.x = StrV(<<>>) THEN None
                            ELSE parse(Wrapped(call.self), call.x)
        /\ call.serialized # Unset =>
              /\ call.serialized = IF call.x = None THEN StrV(<<>>)
                                   ELSE StrV(serialize(Wrapped(call.self), call.x))
              /\ call.x = None => parse(call.self, call.serialized) = None
        /\ call.normalized # Unset =>
              /\ call.normalized = IF call.x = None THEN None
                                   ELSE Base_normalize(call.self, Super(call.self.cls), call.x)
              /\ (call.x # None /\ (call.self.cls # "OptionalBoolParameter"
                                     \/ call.x.t \in {"str", "bool"})) =>
                    call.normalized = normalize(Wrapped(call.self), call.x)

\* the three methods ran on None for the wrapper over the path parameter,
\* whose own normalize fails on None
C15_Witness ==
    /\ call.fn = "apply" /\ call.self.cls = "OptionalPathParameter"
    /\ call.x = None
    /\ call.parsed = None /\ call.normalized = None /\ call.serialized = StrV(<<>>)
    /\ IsExc(normalize(Wrapped(call.self), None))

\* what is written in the text x
WrittenIn(x) == CHOOSE c \in TimeDeltaTexts : c.x = x

\* C19: TimeDeltaParameter.parse returns a duration only when the input
\* matches the plain seconds, the ISO 8601 or the short form; the duration is
\* the sum of all unit fields written in the input, also for an ISO text
\* that combines weeks with day and time fields; an input matching none of
\* the forms, a short form with fields out of descending order included,
\* fails with ParameterException.
C19_TimeDeltaParse ==
    Parsed("TimeDeltaParameter") =>
        IF WrittenIn(call.x).form = "none"
        THEN IsExc(call.parsed) /\ call.parsed.exc = "ParameterException"
        ELSE call.parsed = Timedelta(WrittenIn(call.x).fields)

\* C19 on the texts that neither combine weeks with other ISO fields nor
\* write short fields out of order
C19_OrderedUncombined ==
    (Parsed("TimeDeltaParameter")
        /\ ~(WrittenIn(call.x).form = "iso" /\ WrittenIn(call.x).fields.weeks > 0
                /\ WrittenIn(call.x).fields # UnitFields(WrittenIn(call.x).fields.weeks, 0, 0, 0, 0))
        /\ ~(WrittenIn(call.x).form = "none" /\ WrittenIn(call.x).fields # UnitFields(0, 0, 0, 0, 0)))
    => C19_TimeDeltaParse

\* what the text x denotes
Denoted(x) == CHOOSE c \in CompositeTexts : c.x = x

\* parse was called on a composite parameter
CompositeParsed ==
    call.fn = "apply" /\ call.self.cls \in CompositeClasses /\ call.parsed # Unset

\* parse of a text gave the structure the text denotes: the mapping as it
\* is, the sequence as a list, the tuple as a tuple of tuples, or, when the
\* text is no JSON of sequences, as the tuple of its Python literal
DecodedAsDenoted ==
    CASE call.self.cls = "DictParameter" ->
            IF Denoted(call.x).json = Undecodable
            THEN IsExc(call.parsed) /\ call.parsed.exc = "ValueError"
            ELSE call.parsed = Denoted(call.x).json
      [] call.self.cls = "ListParameter" ->
            IF Denoted(call.x).json = Undecodable
            THEN IsExc(call.parsed) /\ call.parsed.exc = "ValueError"
            ELSE IF Denoted(call.x).json = None THEN call.parsed = None
            ELSE call.parsed = PyList(Denoted(call.x).json)
      [] call.self.cls = "TupleParameter" ->
            IF Denoted(call.x).json # Undecodable
               /\ ~IsExc(TupleOfTuples(Denoted(call.x).json))
            THEN call.parsed = TupleOfTuples(Denoted(call.x).json)
            ELSE IF Denoted(call.x).literal = Undecodable THEN IsExc(call.parsed)
            ELSE call.parsed = PyTuple(Denoted(call.x).literal)

\* C20: every composite variant (mapping, sequence, tuple of tuples)
\* decodes a text as structured text and returns an input that is no text
\* unchanged, without failing; the tuple variant falls back to the
\* evaluation of the text as a Python literal when the decoding fails.
C20_CompositeParse ==
    CompositeParsed =>
        IF IsStr(call.x) THEN DecodedAsDenoted ELSE call.parsed = call.x

\* C20 on texts, and on any input of the mapping variant
C20_TextOrMapping ==
    (CompositeParsed /\ (IsStr(call.x) \/ call.self.cls = "DictParameter")) =>
        C20_CompositeParse

\* a datetime variant was normalized
DatetimeNormalized ==
    call.fn = "apply" /\ call.self.cls \in DatetimeClasses /\ call.normalized # Unset

\* the whole seconds of the duration from b to a
WholeSecondsBetween(a, b) ==
    DatetimeDiff(a, b).days * SecondsPerDay + DatetimeDiff(a, b).seconds

\* the seconds of one interval of the parameter
Granularity(self) == self.interval * UnitSeconds(self.cls)

\* r = normalize(t) is not after t, less than one interval and a second
\* before it, and a whole number of intervals away from start
ClampedFromStart(self, t, r) ==
    /\ r.sec < t.sec \/ (r.sec = t.sec /\ r.us <= t.us)
    /\ WholeSecondsBetween(t, r) <= Granularity(self)
    /\ DatetimeDiff(r, self.start).us = 0
    /\ WholeSecondsBetween(r, self.start) % Granularity(self) = 0

\* next_in_enumeration(x) is x moved on by N units
AddsUnits ==
    (call.fn = "apply" /\ call.self.cls \in DatetimeClasses /\ call.next # Unset) =>
        call.next = DatetimeV(call.x.sec + Granularity(call.self), call.x.us)

\* C21: the datetime variants clamp on whole elapsed seconds: for every
\* datetime t, start s and interval N >= 1, r = normalize(t) has zero
\* sub-second part, r <= t, t - r < N * unit_seconds + 1 second, and the
\* seconds from s to r are a multiple of N * unit_seconds;
\* next_in_enumeration adds exactly N units.
C21_DatetimeClamp ==
    /\ DatetimeNormalized =>
          /\ call.normalized.us = 0
          /\ ClampedFromStart(call.self, convert_to_dt(call.x), call.normalized)
    /\ AddsUnits

\* C21 with the sub-second part of the result being that of start
C21_ClampKeepsStartFraction ==
    /\ DatetimeNormalized =>
          /\ call.normalized.us = call.self.start.us
          /\ ClampedFromStart(call.self, convert_to_dt(call.x), call.normalized)
    /\ AddsUnits

----------------------------------------------------------------------------
(* The pipe wrappers of luigi/format.py: a wrapper, its subprocess, and    *)
(* the calls made on the wrapper while the subprocess runs or has exited.  *)

\* the writes one wrapper receives
MaxWrites == 2

\* OutputPipeProcessWrapper.WRITES_BEFORE_FLUSH
WRITES_BEFORE_FLUSH == 10000

\* the statuses a subprocess exits with: success, failure, death by signal 9
ExitStatuses == {0, 1, 2, -9}

\* an open file object handed to a wrapper as its other end
FileV(closed) == [t |-> "file", closed |-> closed]

\* subprocess.Popen(command, stdin=..., stdout=...): a running process, the
\* status it exits with, and the buffered writer on its standard input
Popen(status) ==
    [t |-> "Popen", exited |-> FALSE, status |-> status, returncode |-> None,
     stdin |-> [buffered |-> 0, closed |-> FALSE]]

\* Popen.wait(): blocks until the process has exited, then records the status
Popen_wait(process) ==
    [process EXCEPT !.exited = TRUE, !.returncode = IntV(process.status)]

\* process.stdin.write(data): the data goes to the buffer of the writer
stdin_write(process) ==
    IF process.stdin.closed
    THEN Exc("ValueError", <<Lit("write to closed file")>>)
    ELSE [process EXCEPT !.stdin.buffered = @ + 1]

\* process.stdin.flush(): buffered data goes to the pipe, whose reading end
\* is gone once the process has exited
stdin_flush(process) ==
    IF process.stdin.closed
    THEN Exc("ValueError", <<Lit("flush of closed file")>>)
    ELSE IF process.stdin.buffered > 0 /\ process.exited
    THEN Exc("BrokenPipeError", <<Lit("[Errno 32] Broken pipe")>>)
    ELSE [process EXCEPT !.stdin.buffered = 0]

\* process.stdin.close(): flushes, then closes
stdin_close(process) ==
    LET Flushed(p) == IF IsExc(p) THEN p ELSE [p EXCEPT !.stdin.closed = TRUE]
    IN  IF process.stdin.closed THEN process ELSE Flushed(stdin_flush(process))

\* InputPipeProcessWrapper.__init__ and OutputPipeProcessWrapper.__init__, as
\* the wrapper w.self with its subprocess w.process; w.raised is the
\* exception a call on the wrapper ended with
PipeProcessWrapper_init(cls, pipe, status) ==
    [self |-> IF cls = "InputPipeProcessWrapper"
              THEN [cls |-> cls, input_pipe |-> pipe]
              ELSE [cls |-> cls, closed |-> FALSE, output_pipe |-> pipe, flushcount |-> 0],
     process |-> Popen(status),
     raised |-> None]

\* InputPipeProcessWrapper._finish
InputPipeProcessWrapper_finish(w) ==
    LET Waited(f) ==
            IF f.process.returncode # IntV(0)
            THEN [f EXCEPT !.raised =
                     Exc("RuntimeError",
                         <<Lit("Error reading from pipe. Subcommand exited with non-zero exit status.")>>)]
            ELSE f
    IN  Waited([w EXCEPT !.self.input_pipe = IF @ # None THEN FileV(TRUE) ELSE @,
                         !.process = Popen_wait(@)])

\* InputPipeProcessWrapper.close
InputPipeProcessWrapper_close(w) == InputPipeProcessWrapper_finish(w)

\* OutputPipeProcessWrapper.write
OutputPipeProcessWrapper_write(w) ==
    LET Counted(f) ==
            IF f.self.flushcount # WRITES_BEFORE_FLUSH THEN f
            ELSE LET Flushed(p) ==
                         IF IsExc(p) THEN [f EXCEPT !.raised = p]
                         ELSE [f EXCEPT !.process = p, !.self.flushcount = 0]
                 IN  Flushed(stdin_flush(f.process))
        Written(p) ==
            IF IsExc(p) THEN [w EXCEPT !.raised = p]
            ELSE Counted([w EXCEPT !.process = p, !.self.flushcount = @ + 1])
    IN  Written(stdin_write(w.process))

\* OutputPipeProcessWrapper._finish
OutputPipeProcessWrapper_finish(w) ==
    LET Closed(p) ==
            IF IsExc(p) THEN [w EXCEPT !.raised = p]
            ELSE [w EXCEPT !.process = Popen_wait(p), !.self.closed = TRUE]
        Flushed(p) == Closed(IF IsExc(p) THEN p ELSE stdin_close(p))
    IN  IF w.process.returncode # None THEN w ELSE Flushed(stdin_flush(w.process))

\* OutputPipeProcessWrapper.close
OutputPipeProcessWrapper_close(w) ==
    LET Finished(f) ==
            IF f.raised # None THEN f
            ELSE IF f.process.returncode = IntV(0)
            THEN [f EXCEPT !.self.output_pipe = IF @ # None THEN FileV(TRUE) ELSE @]
            ELSE [f EXCEPT !.raised =
                     Exc("RuntimeError", <<Lit("Error when executing command")>>)]
    IN  Finished(OutputPipeProcessWrapper_finish(w))

\* OutputPipeProcessWrapper.abort
OutputPipeProcessWrapper_abort(w) == OutputPipeProcessWrapper_finish(w)

\* an exception type, as __exit__ receives it
ExcType(name) == [t |-> "type", name |-> name]

\* OutputPipeProcessWrapper.__exit__
OutputPipeProcessWrapper_exit(w, type) ==
    IF type = None THEN OutputPipeProcessWrapper_close(w)
    ELSE OutputPipeProcessWrapper_abort(w)

\* OutputPipeProcessWrapper.__del__
OutputPipeProcessWrapper_del(w) ==
    IF ~w.self.closed THEN OutputPipeProcessWrapper_abort(w) ELSE w

\* the wrapper, subprocess and outcome held in call
World == [self |-> call.self, process |-> call.process, raised |-> None]

\* call after op left the world w
After(op, w) ==
    [call EXCEPT !.self = w.self, !.process = w.process, !.op = op, !.r = w.raised]

\* call after close(), abort(), __exit__ or __del__ left the world w
Ended(op, w) == [After(op, w) EXCEPT !.ended = TRUE]

InitPipe ==
    /\ NoResolution
    /\ Parameter_counter = 1
    /\ NoDeclaration
    /\ \E cls \in {"InputPipeProcessWrapper", "OutputPipeProcessWrapper"},
          pipe \in {None, FileV(FALSE)}, status \in ExitStatuses :
          LET Made(w) == [fn |-> "pipe", self |-> w.self, process |-> w.process,
                          writes |-> 0, ended |-> FALSE, op |-> "__init__",
                          r |-> None]
          IN  call = Made(PipeProcessWrapper_init(cls, pipe, status))

\* the subprocess exits by itself
ProcessExit ==
    /\ call.fn = "pipe" /\ ~call.process.exited
    /\ call' = [call EXCEPT !.process.exited = TRUE, !.op = "exit"]
    /\ UNCHANGED <<resVars, Parameter_counter, declVars>>

\* wrapper.write(data)
PipeWrite ==
    /\ call.fn = "pipe" /\ call.self.cls = "OutputPipeProcessWrapper"
    /\ call.writes < MaxWrites
    /\ call' = [After("write", OutputPipeProcessWrapper_write(World))
                    EXCEPT !.writes = @ + 1]
    /\ UNCHANGED <<resVars, Parameter_counter, declVars>>

\* wrapper.close()
PipeClose ==
    /\ call.fn = "pipe"
    /\ call' = Ended("close",
                     IF call.self.cls = "InputPipeProcessWrapper"
                     THEN InputPipeProcessWrapper_close(World)
                     ELSE OutputPipeProcessWrapper_close(World))
    /\ UNCHANGED <<resVars, Parameter_counter, declVars>>

\* wrapper.abort()
PipeAbort ==
    /\ call.fn = "pipe" /\ call.self.cls = "OutputPipeProcessWrapper"
    /\ call' = Ended("abort", OutputPipeProcessWrapper_abort(World))
    /\ UNCHANGED <<resVars, Parameter_counter, declVars>>

\* the with block of the wrapper is left, normally or by an exception
PipeExit ==
    /\ call.fn = "pipe" /\ call.self.cls = "OutputPipeProcessWrapper"
    /\ \E type \in {None, ExcType("KeyError")} :
          call' = Ended("__exit__", OutputPipeProcessWrapper_exit(World, type))
    /\ UNCHANGED <<resVars, Parameter_counter, declVars>>

\* the wrapper is finalized, or del is called on it
PipeDel ==
    /\ call.fn = "pipe" /\ call.self.cls = "OutputPipeProcessWrapper"
    /\ call' = Ended("__del__", OutputPipeProcessWrapper_del(World))
    /\ UNCHANGED <<resVars, Parameter_counter, declVars>>

NextPipe == ProcessExit \/ PipeWrite \/ PipeClose \/ PipeAbort \/ PipeExit \/ PipeDel

SpecPipe == InitPipe /\ [][NextPipe]_vars

\* close() was the last call on a wrapper of class cls
PipeClosed(cls) == call.fn = "pipe" /\ call.self.cls = cls /\ call.op = "close"

\* C16: close() on the read wrapper or on the write wrapper raises
\* RuntimeError when the wrapped subprocess exited with a non-zero status,
\* and raises nothing when it exited with status zero.
C16_CloseReportsFailure ==
    (call.fn = "pipe" /\ call.op = "close" /\ call.process.exited) =>
        IF call.process.status = 0 THEN call.r = None
        ELSE IsExc(call.r) /\ call.r.exc = "RuntimeError"

\* C16 on the read wrapper alone
C16_ReadWrapper == PipeClosed("InputPipeProcessWrapper") => C16_CloseReportsFailure

\* C16 on the write wrapper whenever close() found nothing buffered for a
\* subprocess that had exited
C16_WriteWrapperUnbroken ==
    (PipeClosed("OutputPipeProcessWrapper")
        /\ ~(IsExc(call.r) /\ call.r.exc = "BrokenPipeError")) => C16_CloseReportsFailure

\* the wrapper is a write wrapper
OutputWrapper == call.fn = "pipe" /\ call.self.cls = "OutputPipeProcessWrapper"

\* once close(), abort(), __exit__ or __del__ has been called, the standard
\* input of the subprocess is flushed and closed, the subprocess has been
\* awaited and the closed flag is set
FinishedByFirstCall ==
    (OutputWrapper /\ call.ended) =>
        /\ call.self.closed
        /\ call.process.stdin.closed /\ call.process.stdin.buffered = 0
        /\ call.process.returncode # None

\* a step from a closed wrapper leaves it closed and its subprocess as it was
ClosedForGood ==
    (OutputWrapper /\ call.self.closed) =>
        (call'.self.closed /\ call'.process = call.process)

\* C27: over any sequence of close(), abort(), __exit__ and __del__ calls on
\* an OutputPipeProcessWrapper, the standard input of the subprocess is
\* flushed and closed and the subprocess is awaited at most once, by the
\* first of these calls; the closed flag becomes true at that point and never
\* returns to false; and __del__ after a completed close or abort does
\* nothing more to the subprocess.
C27_Lifecycle == [] FinishedByFirstCall /\ [][ClosedForGood]_vars

\* C27 from the point where a call has completed: a closed wrapper stays
\* closed and no later call touches its subprocess
C27_ClosedForGood == [][ClosedForGood]_vars

\* __del__ was called on a wrapper that close() had closed
C27_Witness ==
    /\ OutputWrapper /\ call.ended
    /\ call.op = "__del__" /\ call.r = None
    /\ call.self.closed /\ call.process.returncode = IntV(0)

----------------------------------------------------------------------------
(* A boolean parameter on the command line: the option of the parameter    *)
(* is left out, given alone, or given with a text, and the parameter is    *)
(* resolved.                                                               *)

Absent == [t |-> "absent"]
Flag == [t |-> "flag"]

\* the ways the option is given
Given ==
    {Absent, Flag} \cup {StrV(txt) : txt \in {<<"t", "r", "u", "e">>, <<"F", "a", "l", "s", "e">>,
                                               <<"x">>}}

\* the keyword arguments of the declaration
BoolKwargs ==
    {[default |-> d] : d \in {NoValue, BoolV(TRUE), BoolV(FALSE)}}
    \cup {[default |-> d, parsing |-> p] :
            d \in {NoValue, BoolV(TRUE), BoolV(FALSE)}, p \in {"implicit", "explicit"}}

InitCmdline ==
    /\ \E kwargs \in BoolKwargs :
          /\ param = Construct("BoolParameter", kwargs, 0)
          /\ call = [fn |-> "cmdline", kwargs |-> kwargs, given |-> Absent]
    /\ Parameter_counter = 1
    /\ cli = NoCmdline
    /\ config = [k \in ConfigKeys |-> Missing]
    /\ last = NoCall
    /\ NoDeclaration

\* a command line is parsed by the parser built from _parser_kwargs; an
\* option that stores a constant takes no text, one that stores a text and
\* has no nargs="?" cannot be given alone
CmdlineParseOption ==
    /\ \E given \in Given :
          LET Added(kwargs) ==
                  /\ given.t = "str" => kwargs.action = "store"
                  /\ given = Flag => (kwargs.action = "store_true" \/ "nargs" \in DOMAIN kwargs)
                  /\ cli' = [active |-> TRUE,
                             known_args |-> [d \in {kwargs.dest} |->
                                                add_argument_parsed(kwargs, given)]]
                  /\ call' = [call EXCEPT !.given = given]
          IN  Added(parser_kwargs(param, ParamName, TaskName))
    /\ last' = NoCall
    /\ UNCHANGED <<param, config, Parameter_counter, declVars>>

NextCmdline ==
    \/ CmdlineParseOption
    \/ CmdlineExit
    \/ ConfigSet
    \/ CallGetValue
    \/ CallTaskValue

SpecCmdline == InitCmdline /\ [][NextCmdline]_vars

\* task_value was called for a parameter in implicit parsing mode while the
\* command line with the option given as g is current
ImplicitResolved(g) ==
    /\ call.fn = "cmdline" /\ call.given = g
    /\ param.parsing = "implicit" /\ cli.active
    /\ last.op = "task_value"

\* C17: in implicit parsing mode a boolean parameter resolves to true when
\* its flag is present on the command line without a value; when the flag is
\* absent the command line gives no candidate and the parameter resolves to
\* the value of the config entry when there is one, else to its default,
\* which is false unless another default was declared.
C17_ImplicitBool ==
    /\ ImplicitResolved(Flag) => last.ret = BoolV(TRUE)
    /\ ImplicitResolved(Absent) =>
          /\ CurrentPresent =>
                last.ret = IF IsExc(parse(param, CurrentRaw)) THEN parse(param, CurrentRaw)
                           ELSE normalize(param, parse(param, CurrentRaw))
          /\ ~CurrentPresent =>
                last.ret = IF call.kwargs.default = NoValue THEN BoolV(FALSE)
                           ELSE call.kwargs.default

\* C17 as stated: true when the flag is present, false when it is absent
C17_ImplicitBoolAsStated ==
    /\ ImplicitResolved(Flag) => last.ret = BoolV(TRUE)
    /\ ImplicitResolved(Absent) => last.ret = BoolV(FALSE)

\* the flag was absent, nothing was configured and no default was declared:
\* the parameter resolved to false
C17_Witness ==
    /\ ImplicitResolved(Absent)
    /\ call.kwargs.default = NoValue /\ ~CurrentPresent
    /\ last.ret = BoolV(FALSE)

\* the flag was present and the parameter resolved to true against a
\* declared default of false and a config entry of false
C17_WitnessPresent ==
    /\ ImplicitResolved(Flag)
    /\ call.kwargs.default = BoolV(FALSE)
    /\ CurrentRaw = StrV(<<"f", "a", "l", "s", "e">>)
    /\ last.ret = BoolV(TRUE)

----------------------------------------------------------------------------
(* Resolution of a NumericalParameter whose default may lie outside the    *)
(* permitted interval                                                      *)

\* values given as default=, inside and outside [0, 2)
NumericalDefaults == {NoValue, IntV(1), IntV(-1), IntV(5)}

InitNumerical ==
    /\ param \in {Construct("NumericalParameter",
                            [var_type |-> "int", min_value |-> IntV(0),
                             max_value |-> IntV(2), left_op |-> l, right_op |-> r,
                             default |-> d, config_path |-> cp], 0) :
                     l \in {"le", "lt"}, r \in {"le", "lt"}, d \in NumericalDefaults,
                     cp \in ValidConfigPaths}
    /\ Parameter_counter = 1
    /\ cli = NoCmdline
    /\ config = [k \in ConfigKeys |-> Missing]
    /\ last = NoCall
    /\ NoDeclaration
    /\ NoApplication

SpecNumerical == InitNumerical /\ [][Next]_vars

\* v lies in the interval the parameter permits
InRange(v) ==
    /\ IF param.left_op = "le" THEN param.min_value.i <= v.i ELSE param.min_value.i < v.i
    /\ IF param.right_op = "lt" THEN v.i < param.max_value.i ELSE v.i <= param.max_value.i

\* C25: the range of a NumericalParameter is validated inside parse only:
\* when the winning candidate is the declared default, task_value returns
\* that default unchanged even if it lies outside the permitted interval,
\* normalize being the identity for this variant; a value of the command
\* line or of the config is returned when it is in the interval and is
\* rejected with an invalid-value failure when it is not.
C25_DefaultNotRangeChecked ==
    (param.cls = "NumericalParameter" /\ last.op = "task_value") =>
        IF FirstRaw = NoValue
        THEN DefaultPresent => last.ret = param.default
        ELSE LET Checked(v) ==
                     IF IsExc(v) THEN last.ret = v
                     ELSE IF InRange(v) THEN last.ret = v
                     ELSE IsExc(last.ret) /\ last.ret.exc = "ValueError"
             IN  Checked(PyInt(FirstRaw))

\* with no value on the command line or in the config, task_value returned
\* the default 5 of a parameter that permits [0, 2)
C25_Witness ==
    /\ param.cls = "NumericalParameter" /\ param.default = IntV(5)
    /\ ~InRange(param.default)
    /\ FirstRaw = NoValue
    /\ last.op = "task_value" /\ last.ret = IntV(5)

============================================================================
